---- MODULE Spec2Model ----
(***************************************************************************)
(* A model of the ERP data transformation engine of erp_platform:          *)
(*   csv_processor_cy.pyx    CSVProcessorCy (tokenizer, process_fast,       *)
(*                           write_fast, process_large_file_fast)           *)
(*   sap_transformer_cy.pyx  SAPTransformerCy (field normalizer, entity     *)
(*                           dispatch, BAPI result)                         *)
(*   json_processor (unnamed/part_001)  sap_bapi_response_parser            *)
(*                                                                         *)
(* A Python str is a sequence of one-character strings; a dict is the       *)
(* sequence of its <<key, value>> items in insertion order, keys unique.    *)
(***************************************************************************)
EXTENDS Integers, Sequences, FiniteSets, TLC

VARIABLES
    \* CSVProcessorCy and the file or text it works on
    delimiter,      \* CSVProcessorCy.delimiter
    quotechar,      \* CSVProcessorCy.quotechar
    file_content,   \* the str handed to process_fast / the text of the file at file_path
    \* process_fast
    has_header,     \* the has_header argument of the running call
    lines,          \* the local list lines
    i,              \* the loop index of "for i in range(len(lines))"
    headers,        \* the local list headers
    line,           \* the line of the last _parse_csv_line_fast call
    fields,         \* the list the last _parse_csv_line_fast call returned
    result,         \* the local list result
    pc,             \* position of the call
    \* write_fast
    data,           \* the list of records handed to write_fast
    \* stream_process / process_large_file_fast
    chunk_size,     \* the chunk_size argument
    callback_raises_at, \* the caller's callback raises on its n-th call (0: never)
    file_readable,  \* whether open(file_path) succeeds
    lf_headers,     \* the local list headers (<<>> stands for None)
    lf_lines,       \* the lines of the file after the header line, still to read
    chunk,          \* the local list chunk
    line_count,     \* the local counter line_count
    chunk_calls,    \* the chunks handed to the local process_chunk, in call order
    callback_calls, \* the chunks handed to the caller's callback, in call order
    lf_pc,          \* position of the call
    \* SAPTransformerCy
    sap_value,      \* a field value
    sap_once,       \* _transform_sap_field(sap_value)
    sap_twice,      \* _transform_sap_field(sap_once)
    record_type,    \* the record_type argument of batch_transform_records
    records,        \* the records argument of batch_transform_records
    transformed,    \* the list batch_transform_records returns
    sap_pc,         \* position of the call
    \* BAPI response parsing
    bapi_response,  \* the response mapping
    bapi_result,    \* the dict SAPTransformerCy._transform_bapi_result returns
    bapi_pc,        \* position of the _transform_bapi_result call
    parser_result,  \* the dict sap_bapi_response_parser returns
    parser_pc,      \* position of the sap_bapi_response_parser call
    \* JSONProcessorCy
    json_data,      \* the data argument of transform / flatten
    json_mapping,   \* the mapping argument of transform
    json_sep,       \* the sep argument of flatten
    json_out,       \* the value transform returns
    json_flat,      \* the dict flatten returns
    json_pc,        \* position of the call
    \* erp_data_validator / erp_json_validator
    val_data,       \* the list of records handed to erp_data_validator
    val_schema,     \* the schema argument
    val_errors,     \* the list erp_data_validator returns
    val_pc,         \* position of the erp_data_validator call
    jv_index,       \* the record handed to erp_json_validator (its index in val_data)
    jv_errors,      \* the list erp_json_validator returns
    jv_pc,          \* position of the erp_json_validator call
    \* process_fast calls running on worker threads, one per thread
    th_content,     \* the file_content argument of the thread's call
    th_has_header,  \* the has_header argument of the thread's call
    th_lines,       \* the local list lines of the thread's call
    th_i,           \* the local loop index of the thread's call
    th_headers,     \* the local list headers of the thread's call
    th_result,      \* the local list result of the thread's call
    th_pc,          \* position of the thread's call
    \* objects of the caller and of the calls
    heap,           \* the objects (dicts, lists, arrays) by address
    heap_before,    \* the objects as they were when the call began
    frame_args,     \* the addresses handed to the call
    frame_out,      \* the addresses of the objects the call returned
    frame_op,       \* the operation called
    frame_pc,       \* position of the call
    \* calls of the math utilities
    math_op,        \* the function called
    math_func,      \* its agg_func / operation argument
    math_a,         \* its first array or matrix argument
    math_b,         \* its second array or matrix argument
    math_window,    \* the window_size argument of moving_average
    math_out,       \* the value returned
    math_pc         \* position of the call

cfg_vars == <<delimiter, quotechar, file_content>>

pf_vars == <<has_header, lines, i, headers, line, fields, result, pc>>

lf_vars == <<chunk_size, callback_raises_at, file_readable, lf_headers, lf_lines,
             chunk, line_count, chunk_calls, callback_calls, lf_pc>>

sap_vars == <<sap_value, sap_once, sap_twice, record_type, records, transformed, sap_pc>>

bapi_vars == <<bapi_response, bapi_result, bapi_pc, parser_result, parser_pc>>

json_vars == <<json_data, json_mapping, json_sep, json_out, json_flat, json_pc>>

val_vars == <<val_data, val_schema, val_errors, val_pc, jv_index, jv_errors, jv_pc>>

th_vars == <<th_content, th_has_header, th_lines, th_i, th_headers, th_result, th_pc>>

frame_vars == <<heap, heap_before, frame_args, frame_out, frame_op, frame_pc>>

math_vars == <<math_op, math_func, math_a, math_b, math_window, math_out, math_pc>>

vars == <<cfg_vars, pf_vars, data, lf_vars, sap_vars, bapi_vars, json_vars, val_vars,
          th_vars, frame_vars, math_vars>>

\* ------------------------------------------------------------------ bounds

MaxLen == 5

MaxZeros == 8

MaxBody == 2

MaxMsgs == 2

MaxRows == 2

MaxFileLines == 4

MaxChunk == 2

MaxChunks == 2

MaxRecords == 2

\* nested JSON values: items per inner list, items per outer list
MaxItems == 2

MaxTopItems == 1

\* validators: records per call, the min_length and the max_length of a rule
MaxValRecords == 2

MinLength == 2

MaxLength == 1

\* threads: the length of a file content
MaxThreadLen == 3

\* arrays: the length of an array and its largest value
MaxArrayLen == 3

MaxArrayValue == 3

\* math utilities: array length, matrix dimension, largest window
MaxMathLen == 3

MaxDim == 2

MaxWindow == 3

\* the tokenizer on bytes: the length of a line
MaxTokLen == 4

\* ----------------------------------------------------------------- strings

Whitespace == {" ", "\n", "\t", "\r"}

Digits == {"0", "1", "2", "3", "4", "5", "6", "7", "8", "9"}

\* All sequences over S of a length from lo to hi.
SeqsUpTo(S, lo, hi) == UNION {[1..k -> S] : k \in lo..hi}

\* All strings over the characters S of length at most n.
StrUpTo(S, n) == SeqsUpTo(S, 0, n)

RECURSIVE LStrip(_)
LStrip(s) ==
    IF s # <<>> /\ Head(s) \in Whitespace THEN LStrip(Tail(s)) ELSE s

RECURSIVE RStrip(_)
RStrip(s) ==
    IF s # <<>> /\ s[Len(s)] \in Whitespace
    THEN RStrip(SubSeq(s, 1, Len(s) - 1)) ELSE s

\* str.strip()
Strip(s) == RStrip(LStrip(s))

\* min(a, b)
Min(a, b) == IF a < b THEN a ELSE b

\* c in s
Contains(s, c) == \E k \in 1..Len(s) : s[k] = c

\* str.split(sep) for a one-character sep: always at least one piece.
RECURSIVE SplitFrom(_, _, _)
SplitFrom(s, sep, cur) ==
    IF s = <<>> THEN <<cur>>
    ELSE IF Head(s) = sep THEN <<cur>> \o SplitFrom(Tail(s), sep, <<>>)
    ELSE SplitFrom(Tail(s), sep, Append(cur, Head(s)))

Split(s, sep) == SplitFrom(s, sep, <<>>)

\* str(j) for j >= 0
RECURSIVE IntToStr(_)
IntToStr(n) ==
    LET d == <<"0", "1", "2", "3", "4", "5", "6", "7", "8", "9">>[(n % 10) + 1]
    IN IF n < 10 THEN <<d>> ELSE Append(IntToStr(n \div 10), d)

\* ------------------------------------------------------------------- dicts

DictKeys(d) == {d[k][1] : k \in 1..Len(d)}

DictGet(d, key) == d[CHOOSE k \in 1..Len(d) : d[k][1] = key][2]

\* d[key] = value: an existing key keeps its place, a new one is appended.
DictSet(d, key, value) ==
    IF key \in DictKeys(d)
    THEN [k \in 1..Len(d) |-> IF d[k][1] = key THEN <<key, value>> ELSE d[k]]
    ELSE Append(d, <<key, value>>)

\* dict == dict: the same keys with the same values, in any order.
DictEq(d, e) ==
    /\ DictKeys(d) = DictKeys(e)
    /\ \A key \in DictKeys(d) : DictGet(d, key) = DictGet(e, key)

\* --------------------------------------------------------------- tokenizer

\* The quote stripping of a produced field: the literal '"', not self.quotechar.
UnquoteField(field) ==
    IF field # <<>> /\ Head(field) = "\"" /\ field[Len(field)] = "\""
    THEN SubSeq(field, 2, Len(field) - 1)
    ELSE field

\* line[a:b].decode().strip() and the quote stripping; a, b are 0-based.
ExtractField(ln, a, b) == UnquoteField(Strip(SubSeq(ln, a + 1, b)))

\* The while loop of _parse_csv_line_fast from index k on.
RECURSIVE ScanLine(_, _, _, _, _, _, _)
ScanLine(ln, delim, quote, k, field_start, in_quotes, acc) ==
    IF k >= Len(ln)
    THEN Append(acc, ExtractField(ln, field_start, Len(ln)))
    ELSE LET c == ln[k + 1]
         IN IF c = quote
            THEN ScanLine(ln, delim, quote, k + 1, field_start, 1 - in_quotes, acc)
            ELSE IF c = delim /\ in_quotes = 0
            THEN ScanLine(ln, delim, quote, k + 1, k + 1, in_quotes,
                          Append(acc, ExtractField(ln, field_start, k)))
            ELSE ScanLine(ln, delim, quote, k + 1, field_start, in_quotes, acc)

\* A tokenizer that lost its in-quotes toggle: every delimiter splits.
RECURSIVE ScanLineNoToggle(_, _, _, _, _)
ScanLineNoToggle(ln, delim, k, field_start, acc) ==
    IF k >= Len(ln)
    THEN Append(acc, ExtractField(ln, field_start, Len(ln)))
    ELSE IF ln[k + 1] = delim
    THEN ScanLineNoToggle(ln, delim, k + 1, k + 1,
                          Append(acc, ExtractField(ln, field_start, k)))
    ELSE ScanLineNoToggle(ln, delim, k + 1, field_start, acc)

parse_csv_line_no_toggle(ln, delim, quote) == ScanLineNoToggle(ln, delim, 0, 0, <<>>)

_parse_csv_line_fast(ln, delim, quote) == ScanLine(ln, delim, quote, 0, 0, 0, <<>>)

\* ------------------------------------------------------------ process_fast

\* No line is blank.
NeverBlank(ln) == FALSE

\* "if not line.strip(): continue"
IsBlank(ln) == Strip(ln) = <<>>

\* The record of one data row when has_header and headers:
\* for j in range(min(len(headers), len(fields))): record[headers[j]] = fields[j]
RECURSIVE ZipRecord(_, _, _, _)
ZipRecord(hs, fs, j, record) ==
    IF j >= (IF Len(hs) < Len(fs) THEN Len(hs) ELSE Len(fs))
    THEN record
    ELSE ZipRecord(hs, fs, j + 1, DictSet(record, hs[j + 1], fs[j + 1]))

\* The record of one data row without headers: record[f"col_{j}"] = fields[j]
RECURSIVE ColRecord(_, _, _)
ColRecord(fs, j, record) ==
    IF j >= Len(fs)
    THEN record
    ELSE ColRecord(fs, j + 1,
                   DictSet(record, <<"c", "o", "l", "_">> \o IntToStr(j), fs[j + 1]))

\* A zip that stops one column early: range(min(len(headers), len(fields)) - 1).
RECURSIVE ZipRecordShort(_, _, _, _)
ZipRecordShort(hs, fs, j, record) ==
    IF j >= (IF Len(hs) < Len(fs) THEN Len(hs) ELSE Len(fs)) - 1
    THEN record
    ELSE ZipRecordShort(hs, fs, j + 1, DictSet(record, hs[j + 1], fs[j + 1]))

RowRecordShort(withHeader, hs, fs) ==
    IF withHeader /\ hs # <<>>
    THEN ZipRecordShort(hs, fs, 0, <<>>) ELSE ColRecord(fs, 0, <<>>)

RowRecord(withHeader, hs, fs) ==
    IF withHeader /\ hs # <<>> THEN ZipRecord(hs, fs, 0, <<>>) ELSE ColRecord(fs, 0, <<>>)

\* process_fast up to the data loop: strip, split, header line.
ProcessFastBegin(h) ==
    /\ pc = "idle"
    /\ LET ls == Split(Strip(file_content), "\n")
       IN IF ls = <<>>
          THEN /\ pc' = "done"
               /\ UNCHANGED <<lines, headers, line, fields>>
          ELSE /\ pc' = "rows"
               /\ IF h
                  THEN /\ headers' = _parse_csv_line_fast(ls[1], delimiter, quotechar)
                       /\ line' = ls[1]
                       /\ fields' = _parse_csv_line_fast(ls[1], delimiter, quotechar)
                       /\ lines' = Tail(ls)
                  ELSE /\ lines' = ls
                       /\ UNCHANGED <<headers, line, fields>>
    /\ has_header' = h
    /\ i' = 0
    /\ result' = <<>>
    /\ UNCHANGED <<cfg_vars, data, lf_vars, sap_vars, bapi_vars,
                   json_vars, val_vars, th_vars, frame_vars,
                   math_vars>>

\* One iteration of "for i in range(len(lines))".
ProcessFastRow ==
    /\ pc = "rows"
    /\ i < Len(lines)
    /\ i' = i + 1
    /\ IF IsBlank(lines[i + 1])
       THEN UNCHANGED <<line, fields, result>>
       ELSE LET fs == _parse_csv_line_fast(lines[i + 1], delimiter, quotechar)
            IN /\ line' = lines[i + 1]
               /\ fields' = fs
               /\ result' = Append(result, RowRecord(has_header, headers, fs))
    /\ UNCHANGED <<has_header, lines, headers, pc>>
    /\ UNCHANGED <<cfg_vars, data, lf_vars, sap_vars, bapi_vars,
                   json_vars, val_vars, th_vars, frame_vars,
                   math_vars>>

\* "return result"
ProcessFastReturn ==
    /\ pc = "rows"
    /\ i = Len(lines)
    /\ pc' = "done"
    /\ UNCHANGED <<has_header, lines, i, headers, line, fields, result>>
    /\ UNCHANGED <<cfg_vars, data, lf_vars, sap_vars, bapi_vars,
                   json_vars, val_vars, th_vars, frame_vars,
                   math_vars>>

\* -------------------------------------------------------- CSV specification

CsvChars == {",", "\"", "'", "a", " ", "\n"}

Delimiters == {","}

Quotechars == {"\"", "'", ","}

ExampleCsv ==
    <<"i", "d", ",", "n", "a", "m", "e", ",", "a", "m", "o", "u", "n", "t", "\n",
      "1", ",", "\"", "A", "c", "m", "e", ",", " ", "I", "n", "c", ".", "\"", ",",
      "1", "0", "0", ".", "5", "0", "\n",
      "2", ",", "B", "e", "t", "a", " ", "C", "o", "r", "p", ",",
      "2", "0", "0", ".", "0", "0", "\n">>

\* No process_fast call is running.
IdlePf ==
    /\ has_header = FALSE
    /\ lines = <<>>
    /\ i = 0
    /\ headers = <<>>
    /\ line = <<>>
    /\ fields = <<>>
    /\ result = <<>>
    /\ pc = "idle"

\* No write_fast call and no large-file call is running.
IdleLf ==
    /\ data = <<>>
    /\ chunk_size = 0
    /\ callback_raises_at = 0
    /\ file_readable = TRUE
    /\ lf_headers = <<>>
    /\ lf_lines = <<>>
    /\ chunk = <<>>
    /\ line_count = 0
    /\ chunk_calls = <<>>
    /\ callback_calls = <<>>
    /\ lf_pc = "idle"

\* No SAPTransformerCy call is running.
IdleSap ==
    /\ sap_value = [kind |-> "str", s |-> <<>>]
    /\ sap_once = [kind |-> "str", s |-> <<>>]
    /\ sap_twice = [kind |-> "str", s |-> <<>>]
    /\ record_type = "generic"
    /\ records = <<>>
    /\ transformed = <<>>
    /\ sap_pc = "idle"

\* No BAPI response is being parsed.
IdleBapi ==
    /\ bapi_response = <<>>
    /\ bapi_result = [success |-> TRUE, messages |-> <<>>, data |-> <<>>,
                      tables |-> <<>>, metadata |-> <<>>]
    /\ bapi_pc = "idle"
    /\ parser_result = [success |-> TRUE, messages |-> <<>>, data |-> <<>>,
                        tables |-> <<>>]
    /\ parser_pc = "idle"

\* No JSONProcessorCy call is running.
IdleJson ==
    /\ json_data = [kind |-> "none"]
    /\ json_mapping = <<>>
    /\ json_sep = <<"_">>
    /\ json_out = [kind |-> "none"]
    /\ json_flat = <<>>
    /\ json_pc = "idle"

\* No validator call is running.
IdleVal ==
    /\ val_data = <<>>
    /\ val_schema = <<>>
    /\ val_errors = <<>>
    /\ val_pc = "idle"
    /\ jv_index = 0
    /\ jv_errors = <<>>
    /\ jv_pc = "idle"

\* No worker thread runs a call.
IdleThreads ==
    /\ th_content = <<>>
    /\ th_has_header = <<>>
    /\ th_lines = <<>>
    /\ th_i = <<>>
    /\ th_headers = <<>>
    /\ th_result = <<>>
    /\ th_pc = <<>>

\* No object is allocated.
IdleFrame ==
    /\ heap = <<>>
    /\ heap_before = <<>>
    /\ frame_args = <<>>
    /\ frame_out = {}
    /\ frame_op = "none"
    /\ frame_pc = "idle"

IdleMath ==
    /\ math_op = "none"
    /\ math_func = "none"
    /\ math_a = <<>>
    /\ math_b = <<>>
    /\ math_window = 0
    /\ math_out = <<>>
    /\ math_pc = "idle"

InitCsv ==
    /\ delimiter \in Delimiters
    /\ quotechar \in Quotechars
    /\ file_content \in StrUpTo(CsvChars, MaxLen) \cup {ExampleCsv}
    /\ IdlePf
    /\ IdleLf
    /\ IdleSap
    /\ IdleBapi
    /\ IdleJson
    /\ IdleVal
    /\ IdleThreads
    /\ IdleFrame
    /\ IdleMath

NextCsv ==
    \/ \E h \in BOOLEAN : ProcessFastBegin(h)
    \/ ProcessFastRow
    \/ ProcessFastReturn

SpecCsv == InitCsv /\ [][NextCsv]_vars

\* -------------------------------------------------------------- write_fast

\* s.replace(c, c + c)
RECURSIVE DoubleChar(_, _)
DoubleChar(s, c) ==
    IF s = <<>> THEN <<>>
    ELSE IF Head(s) = c THEN <<c, c>> \o DoubleChar(Tail(s), c)
    ELSE <<Head(s)>> \o DoubleChar(Tail(s), c)

\* One written field: wrapped in the literal '"' when it holds the delimiter or
\* the quote character, the quote characters in it doubled.
WriteField(field, delim, quote) ==
    IF Contains(field, delim) \/ Contains(field, quote)
    THEN <<"\"">> \o DoubleChar(field, quote) \o <<"\"">>
    ELSE field

\* _write_csv_line_fast: the text written for one row.
RECURSIVE WriteCsvLineFrom(_, _, _, _)
WriteCsvLineFrom(fs, k, delim, quote) ==
    IF k > Len(fs) THEN <<"\n">>
    ELSE WriteField(fs[k], delim, quote)
         \o (IF k < Len(fs) THEN <<delim>> ELSE <<>>)
         \o WriteCsvLineFrom(fs, k + 1, delim, quote)

_write_csv_line_fast(fs, delim, quote) == WriteCsvLineFrom(fs, 1, delim, quote)

\* row = [record.get(header, '') for header in headers_list]
RowOf(record, headers_list) ==
    [k \in 1..Len(headers_list) |->
        IF headers_list[k] \in DictKeys(record) THEN DictGet(record, headers_list[k])
        ELSE <<>>]

\* The text of the data rows from record n on.
RECURSIVE WriteRowsFrom(_, _, _, _, _)
WriteRowsFrom(recs, n, headers_list, delim, quote) ==
    IF n > Len(recs) THEN <<>>
    ELSE _write_csv_line_fast(RowOf(recs[n], headers_list), delim, quote)
         \o WriteRowsFrom(recs, n + 1, headers_list, delim, quote)

\* write_fast(data, file_path) with headers=None: nothing is written for an
\* empty list; else the header row of the first record's keys and the data rows.
WriteFast ==
    /\ pc = "unwritten"
    /\ IF data = <<>>
       THEN /\ pc' = "nofile"
            /\ UNCHANGED file_content
       ELSE LET headers_list == [k \in 1..Len(data[1]) |-> data[1][k][1]]
            IN /\ file_content' =
                     _write_csv_line_fast(headers_list, delimiter, quotechar)
                     \o WriteRowsFrom(data, 1, headers_list, delimiter, quotechar)
               /\ pc' = "idle"
    /\ UNCHANGED <<delimiter, quotechar, has_header, lines, i, headers, line, fields,
                   result, data>>
    /\ UNCHANGED <<lf_vars, sap_vars, bapi_vars,
                   json_vars, val_vars, th_vars, frame_vars,
                   math_vars>>

\* ------------------------------------------------- round-trip specification

KEY_K == <<"k">>
KEY_M == <<"m">>

\* The key lists the records of one call share.
KeyLists == {<<KEY_K>>, <<KEY_K, KEY_M>>}

\* Values: plain, holding the delimiter, empty, holding a double quote.
WriteValues == {<<"a">>, <<"a", ",", "b">>, <<>>, <<"a", "\"", "b">>}

\* The records over a key list.
RecordsOver(keys) ==
    {[k \in 1..Len(keys) |-> <<keys[k], vals[k]>>] : vals \in [1..Len(keys) -> WriteValues]}

InitRt ==
    /\ delimiter = ","
    /\ quotechar \in {"\"", "'"}
    /\ file_content = <<>>
    /\ data \in UNION {SeqsUpTo(RecordsOver(keys), 0, MaxRecords) : keys \in KeyLists}
    /\ has_header = FALSE
    /\ lines = <<>>
    /\ i = 0
    /\ headers = <<>>
    /\ line = <<>>
    /\ fields = <<>>
    /\ result = <<>>
    /\ pc = "unwritten"
    /\ chunk_size = 0
    /\ callback_raises_at = 0
    /\ file_readable = TRUE
    /\ lf_headers = <<>>
    /\ lf_lines = <<>>
    /\ chunk = <<>>
    /\ line_count = 0
    /\ chunk_calls = <<>>
    /\ callback_calls = <<>>
    /\ lf_pc = "idle"
    /\ IdleSap
    /\ IdleBapi
    /\ IdleJson
    /\ IdleVal
    /\ IdleThreads
    /\ IdleFrame
    /\ IdleMath

NextRt ==
    \/ WriteFast
    \/ \E h \in BOOLEAN : ProcessFastBegin(h)
    \/ ProcessFastRow
    \/ ProcessFastReturn

SpecRt == InitRt /\ [][NextRt]_vars

\* ------------------------------------ stream_process / process_large_file_fast

\* The lines a text file yields, without their line ends.
FileLines(text) ==
    LET pieces == Split(text, "\n")
    IN IF pieces[Len(pieces)] = <<>> THEN SubSeq(pieces, 1, Len(pieces) - 1) ELSE pieces

\* stream_process(file_path, k, callback) up to the line loop: the callback is
\* not handed on; process_large_file_fast opens the file and reads the header.
StreamProcess(k, raises_at) ==
    /\ lf_pc = "idle"
    /\ chunk_size' = k
    /\ callback_raises_at' = raises_at
    /\ chunk' = <<>>
    /\ line_count' = 0
    /\ IF ~file_readable
       THEN \* open() raises; "except Exception as e: raise Exception(...)"
            /\ lf_pc' = "error"
            /\ UNCHANGED <<lf_headers, lf_lines>>
       ELSE LET ls == FileLines(file_content)
                header_line == IF ls = <<>> THEN <<>> ELSE Strip(ls[1])
            IN /\ lf_headers' = IF header_line # <<>>
                                THEN _parse_csv_line_fast(header_line, delimiter, quotechar)
                                ELSE <<>>
               /\ lf_lines' = IF ls = <<>> THEN <<>> ELSE Tail(ls)
               /\ lf_pc' = "lines"
    /\ UNCHANGED <<file_readable, chunk_calls, callback_calls>>
    /\ UNCHANGED <<cfg_vars, pf_vars, data, sap_vars, bapi_vars,
                   json_vars, val_vars, th_vars, frame_vars,
                   math_vars>>

\* One iteration of "for line in f".
LargeFileLine ==
    /\ lf_pc = "lines"
    /\ lf_lines # <<>>
    /\ lf_lines' = Tail(lf_lines)
    /\ LET ln == Strip(Head(lf_lines))
       IN IF ln = <<>>
          THEN UNCHANGED <<chunk, line_count, chunk_calls>>
          ELSE LET fs == _parse_csv_line_fast(ln, delimiter, quotechar)
                   filled == IF lf_headers # <<>>
                             THEN Append(chunk, ZipRecord(lf_headers, fs, 0, <<>>))
                             ELSE chunk
               IN /\ line_count' = line_count + 1
                  /\ IF Len(filled) >= chunk_size
                     THEN \* process_chunk(chunk): the local placeholder
                          /\ chunk_calls' = Append(chunk_calls, filled)
                          /\ chunk' = <<>>
                     ELSE /\ chunk' = filled
                          /\ UNCHANGED chunk_calls
    /\ UNCHANGED <<chunk_size, callback_raises_at, file_readable, lf_headers,
                   callback_calls, lf_pc>>
    /\ UNCHANGED <<cfg_vars, pf_vars, data, sap_vars, bapi_vars,
                   json_vars, val_vars, th_vars, frame_vars,
                   math_vars>>

\* After the loop: "if chunk: process_chunk(chunk)" and "return line_count".
LargeFileReturn ==
    /\ lf_pc = "lines"
    /\ lf_lines = <<>>
    /\ IF chunk # <<>>
       THEN chunk_calls' = Append(chunk_calls, chunk)
       ELSE UNCHANGED chunk_calls
    /\ lf_pc' = "returned"
    /\ UNCHANGED <<chunk_size, callback_raises_at, file_readable, lf_headers, lf_lines,
                   chunk, line_count, callback_calls>>
    /\ UNCHANGED <<cfg_vars, pf_vars, data, sap_vars, bapi_vars,
                   json_vars, val_vars, th_vars, frame_vars,
                   math_vars>>

\* ------------------------------------------------- large-file specification

LfLines == {<<>>, <<" ">>, <<"a">>, <<"b", ",", "c">>}

\* "\n".join(ls)
RECURSIVE JoinLines(_)
JoinLines(ls) ==
    IF ls = <<>> THEN <<>>
    ELSE IF Len(ls) = 1 THEN ls[1]
    ELSE ls[1] \o <<"\n">> \o JoinLines(Tail(ls))

InitLf ==
    /\ delimiter = ","
    /\ quotechar = "\""
    /\ file_content \in {JoinLines(ls) : ls \in SeqsUpTo(LfLines, 0, MaxFileLines)}
    /\ file_readable \in BOOLEAN
    /\ data = <<>>
    /\ chunk_size = 0
    /\ callback_raises_at = 0
    /\ lf_headers = <<>>
    /\ lf_lines = <<>>
    /\ chunk = <<>>
    /\ line_count = 0
    /\ chunk_calls = <<>>
    /\ callback_calls = <<>>
    /\ lf_pc = "idle"
    /\ IdlePf
    /\ IdleSap
    /\ IdleBapi
    /\ IdleJson
    /\ IdleVal
    /\ IdleThreads
    /\ IdleFrame
    /\ IdleMath

NextLf ==
    \/ \E k \in 1..MaxChunk, raises_at \in 0..MaxChunks : StreamProcess(k, raises_at)
    \/ LargeFileLine
    \/ LargeFileReturn

SpecLf == InitLf /\ [][NextLf]_vars

\* ------------------------------------------------------- SAPTransformerCy

\* A Value: a str, a number, None, a list or a dict.
Str(s) == [kind |-> "str", s |-> s]

Num(n) == [kind |-> "num", n |-> n]

None == [kind |-> "none"]

List(items) == [kind |-> "list", items |-> items]

Dict(d) == [kind |-> "dict", d |-> d]

\* str.isdigit(): not empty and every character a digit.
IsDigit(s) == s # <<>> /\ \A k \in 1..Len(s) : s[k] \in Digits

\* s.replace(c, "")
RECURSIVE Remove(_, _)
Remove(s, c) ==
    IF s = <<>> THEN <<>>
    ELSE IF Head(s) = c THEN Remove(Tail(s), c)
    ELSE <<Head(s)>> \o Remove(Tail(s), c)

\* s.replace(c, d) for one-character c and d
Replace(s, c, d) == [k \in 1..Len(s) |-> IF s[k] = c THEN d ELSE s[k]]

\* s.lstrip('0')
RECURSIVE LStripZeros(_)
LStripZeros(s) ==
    IF s # <<>> /\ Head(s) = "0" THEN LStripZeros(Tail(s)) ELSE s

\* s.lstrip('0') or '0'
StripLeadingZeros(s) == IF LStripZeros(s) = <<>> THEN <<"0">> ELSE LStripZeros(s)

LowerCase ==
    <<"a", "b", "c", "d", "e", "f", "g", "h", "i", "j", "k", "l", "m",
      "n", "o", "p", "q", "r", "s", "t", "u", "v", "w", "x", "y", "z">>

UpperCase ==
    <<"A", "B", "C", "D", "E", "F", "G", "H", "I", "J", "K", "L", "M",
      "N", "O", "P", "Q", "R", "S", "T", "U", "V", "W", "X", "Y", "Z">>

IsLower(c) == \E k \in 1..26 : LowerCase[k] = c

IsUpper(c) == \E k \in 1..26 : UpperCase[k] = c

ToUpper(c) == IF IsLower(c) THEN UpperCase[CHOOSE k \in 1..26 : LowerCase[k] = c] ELSE c

ToLower(c) == IF IsUpper(c) THEN LowerCase[CHOOSE k \in 1..26 : UpperCase[k] = c] ELSE c

\* str.upper()
Upper(s) == [k \in 1..Len(s) |-> ToUpper(s[k])]

\* str.title(): a letter after a non-letter is upper-cased, any other letter lower-cased.
Title(s) ==
    [k \in 1..Len(s) |->
        IF k > 1 /\ (IsLower(s[k - 1]) \/ IsUpper(s[k - 1]))
        THEN ToLower(s[k]) ELSE ToUpper(s[k])]

\* The generic normalizer with an amount rule that removes the commas as
\* thousands separators instead of turning them into the decimal point.
SapFieldCommasRemoved(v) ==
    LET string_value == Strip(v)
    IN IF string_value = <<>> THEN <<>>
       ELSE IF Len(string_value) = 8 /\ IsDigit(string_value)
       THEN IF string_value # <<"0", "0", "0", "0", "0", "0", "0", "0">>
            THEN SubSeq(string_value, 1, 4) \o <<"-">> \o SubSeq(string_value, 5, 6)
                 \o <<"-">> \o SubSeq(string_value, 7, 8)
            ELSE <<>>
       ELSE IF Len(string_value) = 6 /\ IsDigit(string_value)
       THEN SubSeq(string_value, 1, 2) \o <<":">> \o SubSeq(string_value, 3, 4)
            \o <<":">> \o SubSeq(string_value, 5, 6)
       ELSE IF IsDigit(Remove(Remove(Remove(string_value, "."), ","), "-"))
       THEN IF Contains(string_value, ",") /\ ~Contains(string_value, ".")
            THEN Remove(string_value, ",")
            ELSE string_value
       ELSE IF IsDigit(string_value) /\ Len(string_value) >= 8
       THEN StripLeadingZeros(string_value)
       ELSE string_value

\* The generic normalizer without the special case of the zero date: every
\* 8-digit value is sliced.
SapFieldZeroDateSliced(v) ==
    LET string_value == Strip(v)
    IN IF string_value = <<>> THEN <<>>
       ELSE IF Len(string_value) = 8 /\ IsDigit(string_value)
       THEN SubSeq(string_value, 1, 4) \o <<"-">> \o SubSeq(string_value, 5, 6)
            \o <<"-">> \o SubSeq(string_value, 7, 8)
       ELSE IF Len(string_value) = 6 /\ IsDigit(string_value)
       THEN SubSeq(string_value, 1, 2) \o <<":">> \o SubSeq(string_value, 3, 4)
            \o <<":">> \o SubSeq(string_value, 5, 6)
       ELSE IF IsDigit(Remove(Remove(Remove(string_value, "."), ","), "-"))
       THEN IF Contains(string_value, ",") /\ ~Contains(string_value, ".")
            THEN Replace(string_value, ",", ".")
            ELSE string_value
       ELSE string_value

\* _transform_sap_field on a str: the rules in the order of the code.
SapField(v) ==
    LET string_value == Strip(v)
    IN IF string_value = <<>> THEN <<>>
       ELSE IF Len(string_value) = 8 /\ IsDigit(string_value)
       THEN IF string_value # <<"0", "0", "0", "0", "0", "0", "0", "0">>
            THEN SubSeq(string_value, 1, 4) \o <<"-">> \o SubSeq(string_value, 5, 6)
                 \o <<"-">> \o SubSeq(string_value, 7, 8)
            ELSE <<>>
       ELSE IF Len(string_value) = 6 /\ IsDigit(string_value)
       THEN SubSeq(string_value, 1, 2) \o <<":">> \o SubSeq(string_value, 3, 4)
            \o <<":">> \o SubSeq(string_value, 5, 6)
       ELSE IF IsDigit(Remove(Remove(Remove(string_value, "."), ","), "-"))
       THEN IF Contains(string_value, ",") /\ ~Contains(string_value, ".")
            THEN Replace(string_value, ",", ".")
            ELSE string_value
       ELSE IF IsDigit(string_value) /\ Len(string_value) >= 8
       THEN StripLeadingZeros(string_value)
       ELSE string_value

\* _transform_sap_field: a value that is no str is returned as it is.
_transform_sap_field(value) ==
    IF value.kind # "str" THEN value ELSE Str(SapField(value.s))

\* A run of digits in which single underscores may separate digits.
DigitRun(s) ==
    /\ s # <<>>
    /\ \A k \in 1..Len(s) : s[k] \in Digits \cup {"_"}
    /\ s[1] # "_" /\ s[Len(s)] # "_"
    /\ \A k \in 1..(Len(s) - 1) : ~(s[k] = "_" /\ s[k + 1] = "_")

\* digits, digits., .digits or digits.digits
Mantissa(s) ==
    LET parts == Split(s, ".")
    IN \/ Len(parts) = 1 /\ DigitRun(parts[1])
       \/ /\ Len(parts) = 2
          /\ parts[1] = <<>> \/ DigitRun(parts[1])
          /\ parts[2] = <<>> \/ DigitRun(parts[2])
          /\ parts[1] # <<>> \/ parts[2] # <<>>

Unsigned(s) == IF s # <<>> /\ Head(s) \in {"+", "-"} THEN Tail(s) ELSE s

\* Whether float(s) returns (TRUE) or raises ValueError (FALSE).
FloatParses(s) ==
    LET u == Unsigned(Strip(s))
        low == [k \in 1..Len(u) |-> ToLower(u[k])]
        e == Split(low, "e")
    IN \/ low \in {<<"i", "n", "f">>, <<"n", "a", "n">>,
                   <<"i", "n", "f", "i", "n", "i", "t", "y">>}
       \/ Len(e) = 1 /\ Mantissa(e[1])
       \/ Len(e) = 2 /\ Mantissa(e[1]) /\ DigitRun(Unsigned(e[2]))

\* _normalize_numeric_field(value) for a str or None.
_normalize_numeric_field(value) ==
    IF value.kind = "none" \/ Strip(value.s) = <<>>
    THEN Str(<<"0">>)
    ELSE LET cleaned == Replace(Strip(value.s), ",", ".")
             is_negative == cleaned[Len(cleaned)] = "-"
             body == IF is_negative THEN SubSeq(cleaned, 1, Len(cleaned) - 1) ELSE cleaned
         IN IF FloatParses(body)
            THEN Str(IF is_negative THEN <<"-">> \o body ELSE body)
            ELSE Str(<<"0">>)

\* The outcome of an expression that raises (TypeError, AttributeError).
Raised == [kind |-> "raise"]

\* self._transform_sap_field(value).lstrip('0') or '0'
KeyField(value) ==
    IF value.kind = "str" THEN Str(StripLeadingZeros(SapField(value.s))) ELSE Raised

\* value.strip().upper(), value.strip().title(), value.strip()
UpperField(value) == IF value.kind = "str" THEN Str(Upper(Strip(value.s))) ELSE Raised

TitleField(value) == IF value.kind = "str" THEN Str(Title(Strip(value.s))) ELSE Raised

StripField(value) == IF value.kind = "str" THEN Str(Strip(value.s)) ELSE Raised

\* Field names as str values.
MATNR == <<"M", "A", "T", "N", "R">>
ERSDA == <<"E", "R", "S", "D", "A">>
LAEDA == <<"L", "A", "E", "D", "A">>
MTART == <<"M", "T", "A", "R", "T">>
BRGEW == <<"B", "R", "G", "E", "W">>
NTGEW == <<"N", "T", "G", "E", "W">>
LIFNR == <<"L", "I", "F", "N", "R">>
NAME1 == <<"N", "A", "M", "E", "1">>
NAME2 == <<"N", "A", "M", "E", "2">>
STRAS == <<"S", "T", "R", "A", "S">>
PFACH == <<"P", "F", "A", "C", "H">>
LAND1 == <<"L", "A", "N", "D", "1">>
KUNNR == <<"K", "U", "N", "N", "R">>
KTOKD == <<"K", "T", "O", "K", "D">>
BELNR == <<"B", "E", "L", "N", "R">>
DMBTR == <<"D", "M", "B", "T", "R">>
WRBTR == <<"W", "R", "B", "T", "R">>
WAERS == <<"W", "A", "E", "R", "S">>
BUDAT == <<"B", "U", "D", "A", "T">>
BLDAT == <<"B", "L", "D", "A", "T">>

\* The loop variables "cdef str key, value" take a str or None, nothing else.
TypedStr(value) == value.kind \in {"str", "none"}

\* One field of _transform_material_master.
MaterialField(key, value) ==
    IF ~TypedStr(value) THEN Raised
    ELSE IF key = MATNR THEN KeyField(value)
    ELSE IF key \in {ERSDA, LAEDA} THEN _transform_sap_field(value)
    ELSE IF key = MTART THEN UpperField(value)
    ELSE IF key \in {BRGEW, NTGEW} THEN _normalize_numeric_field(value)
    ELSE _transform_sap_field(value)

\* One field of _transform_vendor_master.
VendorField(key, value) ==
    IF ~TypedStr(value) THEN Raised
    ELSE IF key = LIFNR THEN KeyField(value)
    ELSE IF key = NAME1 THEN TitleField(value)
    ELSE IF key \in {STRAS, PFACH} THEN StripField(value)
    ELSE IF key = LAND1 THEN UpperField(value)
    ELSE _transform_sap_field(value)

\* One field of _transform_customer_master.
CustomerField(key, value) ==
    IF ~TypedStr(value) THEN Raised
    ELSE IF key = KUNNR THEN KeyField(value)
    ELSE IF key \in {NAME1, NAME2} THEN TitleField(value)
    ELSE IF key = KTOKD THEN UpperField(value)
    ELSE _transform_sap_field(value)

\* One field of _transform_financial_document.
FinancialField(key, value) ==
    IF ~TypedStr(value) THEN Raised
    ELSE IF key = BELNR THEN KeyField(value)
    ELSE IF key \in {DMBTR, WRBTR} THEN _normalize_numeric_field(value)
    ELSE IF key = WAERS THEN UpperField(value)
    ELSE IF key \in {BUDAT, BLDAT} THEN _transform_sap_field(value)
    ELSE _transform_sap_field(value)

\* The dispatch of batch_transform_records on record_type, for one field.
TransformField(rtype, key, value) ==
    IF rtype = "material_master" THEN MaterialField(key, value)
    ELSE IF rtype = "vendor_master" THEN VendorField(key, value)
    ELSE IF rtype = "customer_master" THEN CustomerField(key, value)
    ELSE IF rtype = "financial_document" THEN FinancialField(key, value)
    ELSE _transform_sap_field(value)

\* The transformed record: the fields in the order of record.items().
RECURSIVE TransformRecordFrom(_, _, _, _)
TransformRecordFrom(rtype, record, k, acc) ==
    IF k > Len(record) THEN acc
    ELSE TransformRecordFrom(rtype, record, k + 1,
             DictSet(acc, record[k][1], TransformField(rtype, record[k][1], record[k][2])))

TransformRecord(rtype, record) == TransformRecordFrom(rtype, record, 1, <<>>)

\* Whether transforming the record raises.
RecordRaises(rtype, record) ==
    \E k \in 1..Len(record) : TransformField(rtype, record[k][1], record[k][2]) = Raised

\* The call _transform_sap_field(value) and the call on its result.
TransformSapField ==
    /\ sap_pc = "idle"
    /\ sap_once' = _transform_sap_field(sap_value)
    /\ sap_pc' = "once"
    /\ UNCHANGED <<sap_value, sap_twice, record_type, records, transformed>>
    /\ UNCHANGED <<cfg_vars, pf_vars, data, lf_vars, bapi_vars,
                   json_vars, val_vars, th_vars, frame_vars,
                   math_vars>>

TransformSapFieldAgain ==
    /\ sap_pc = "once"
    /\ sap_twice' = _transform_sap_field(sap_once)
    /\ sap_pc' = "twice"
    /\ UNCHANGED <<sap_value, sap_once, record_type, records, transformed>>
    /\ UNCHANGED <<cfg_vars, pf_vars, data, lf_vars, bapi_vars,
                   json_vars, val_vars, th_vars, frame_vars,
                   math_vars>>

\* batch_transform_records(recs, rtype): the first record that raises ends the call.
BatchTransformRecords(recs, rtype) ==
    /\ sap_pc = "idle"
    /\ records' = recs
    /\ record_type' = rtype
    /\ IF \E n \in 1..Len(recs) : RecordRaises(rtype, recs[n])
       THEN /\ transformed' = <<>>
            /\ sap_pc' = "raised"
       ELSE /\ transformed' = [n \in 1..Len(recs) |-> TransformRecord(rtype, recs[n])]
            /\ sap_pc' = "batch"
    /\ UNCHANGED <<sap_value, sap_once, sap_twice>>
    /\ UNCHANGED <<cfg_vars, pf_vars, data, lf_vars, bapi_vars,
                   json_vars, val_vars, th_vars, frame_vars,
                   math_vars>>

\* -------------------------------------------------------- SAP specification

SapChars == {"1", ",", ".", "-", "a", " "}

Zeros(n) == [k \in 1..n |-> "0"]

\* The values of the examples of the documentation, a value with a leading and
\* a trailing minus sign, and a word float() accepts.
SapExamples ==
    { <<"2", "0", "2", "3", "0", "6", "1", "5">>,
      <<"0", "0", "0", "1", "2", "3", "4", "5">>,
      <<"2", "0", "2", "3", "-", "0", "6", "-", "1", "5">>,
      <<"1", "2", "3", "-">>,
      <<" ", "0", "0", "0", "1", "2", "3", "4", "5", " ">>,
      <<"1", ",", "2", "3", "4", ".", "5", "6">>,
      <<"1", ".", "2", "3", "4", ",", "5", "6">>,
      <<"-", "5", "-">>,
      <<"i", "n", "f">> }

\* Field values that are no str: a number and None.
SapNonStrings == {Num(5), None}

\* Field values: a run of zeros and a short tail.
SapStrings ==
    {Zeros(n) \o body : n \in 0..MaxZeros, body \in StrUpTo(SapChars, MaxBody)}
    \cup SapExamples

RecordTypes ==
    {"material_master", "vendor_master", "customer_master", "financial_document",
     "generic"}

SapFieldNames ==
    {MATNR, ERSDA, LAEDA, MTART, BRGEW, NTGEW, LIFNR, NAME1, NAME2, STRAS, PFACH,
     LAND1, KUNNR, KTOKD, BELNR, DMBTR, WRBTR, WAERS, BUDAT, BLDAT}

InitSap ==
    /\ sap_value \in {Str(s) : s \in SapStrings} \cup SapNonStrings
    /\ sap_once = Str(<<>>)
    /\ sap_twice = Str(<<>>)
    /\ record_type = "generic"
    /\ records = <<>>
    /\ transformed = <<>>
    /\ sap_pc = "idle"
    /\ delimiter = ","
    /\ quotechar = "\""
    /\ file_content = <<>>
    /\ IdlePf
    /\ IdleLf
    /\ IdleBapi
    /\ IdleJson
    /\ IdleVal
    /\ IdleThreads
    /\ IdleFrame
    /\ IdleMath

NextSap ==
    \/ TransformSapField
    \/ TransformSapFieldAgain
    \/ \E rtype \in RecordTypes, key \in SapFieldNames :
          BatchTransformRecords(<< << <<key, sap_value>> >> >>, rtype)

SpecSap == InitSap /\ [][NextSap]_vars

\* ------------------------------------------------- BAPI response parsing

RETURN == <<"R", "E", "T", "U", "R", "N">>
TYPE == <<"T", "Y", "P", "E">>
MESSAGE == <<"M", "E", "S", "S", "A", "G", "E">>
FIELD == <<"F", "I", "E", "L", "D">>
NUMBER == <<"N", "U", "M", "B", "E", "R">>

\* dict.get(key, default)
DictGetOr(d, key, default) == IF key \in DictKeys(d) THEN DictGet(d, key) ELSE default

\* _get_message_severity
_get_message_severity(msg_type) ==
    IF msg_type = <<"S">> THEN "success"
    ELSE IF msg_type = <<"I">> THEN "info"
    ELSE IF msg_type = <<"W">> THEN "warning"
    ELSE IF msg_type = <<"E">> THEN "error"
    ELSE IF msg_type = <<"A">> THEN "abort"
    ELSE "unknown"

\* The RETURN value as a list: a single dict is promoted to a one-element list.
ReturnList(response) ==
    IF RETURN \notin DictKeys(response) THEN <<>>
    ELSE LET return_data == DictGet(response, RETURN)
         IN IF return_data.kind = "dict" THEN <<return_data>> ELSE return_data.items

\* "for msg in return_data" raises unless return_data is a list of dicts ("cdef dict msg").
ReturnRaises(response) ==
    /\ RETURN \in DictKeys(response)
    /\ LET return_data == DictGet(response, RETURN)
       IN \/ return_data.kind \notin {"dict", "list"}
          \/ /\ return_data.kind = "list"
             /\ \E k \in 1..Len(return_data.items) : return_data.items[k].kind # "dict"

\* msg.get('TYPE', '') as a str
MsgType(msg) == DictGetOr(msg.d, TYPE, Str(<<>>)).s

\* The message entry _transform_bapi_result appends.
BapiMessage(msg) ==
    [type |-> MsgType(msg),
     message |-> DictGetOr(msg.d, MESSAGE, Str(<<>>)),
     field |-> DictGetOr(msg.d, FIELD, Str(<<>>)),
     number |-> DictGetOr(msg.d, NUMBER, Str(<<>>)),
     severity |-> _get_message_severity(MsgType(msg))]

\* The message entry sap_bapi_response_parser appends.
ParserMessage(msg) ==
    [type |-> MsgType(msg),
     message |-> DictGetOr(msg.d, MESSAGE, Str(<<>>)),
     field |-> DictGetOr(msg.d, FIELD, Str(<<>>)),
     number |-> DictGetOr(msg.d, NUMBER, Str(<<>>))]

\* A list of any length counts as a table parameter.
IsTableParamAnyList(value) == value.kind = "list"

\* "isinstance(value, list) and len(value) > 0"
IsTableParam(value) == value.kind = "list" /\ Len(value.items) > 0

\* _transform_sap_table raises unless every row is a dict ("cdef dict row").
TableRaises(table_data) ==
    \E k \in 1..Len(table_data) : table_data[k].kind # "dict"

\* Every row is converted with its own keys.
TableOfOwnKeys(table_data) ==
    [headers |-> IF table_data = <<>> THEN <<>>
                 ELSE [k \in 1..Len(table_data[1].d) |-> table_data[1].d[k][1]],
     rows |-> [n \in 1..Len(table_data) |->
                 [k \in 1..Len(table_data[n].d) |->
                     _transform_sap_field(table_data[n].d[k][2])]],
     row_count |-> Len(table_data)]

\* _transform_sap_table
_transform_sap_table(table_data) ==
    IF table_data = <<>>
    THEN [headers |-> <<>>, rows |-> <<>>, row_count |-> 0]
    ELSE LET first_row == table_data[1].d
             hs == [k \in 1..Len(first_row) |-> first_row[k][1]]
             rows == [n \in 1..Len(table_data) |->
                        [k \in 1..Len(hs) |->
                            _transform_sap_field(
                                DictGetOr(table_data[n].d, hs[k], Str(<<>>)))]]
         IN [headers |-> hs, rows |-> rows, row_count |-> Len(rows)]

\* The loop "for key, value in bapi_response.items()" of _transform_bapi_result:
\* the data and the tables after the first k items.
RECURSIVE BapiData(_, _)
BapiData(response, k) ==
    IF k = 0 THEN <<>>
    ELSE LET key == response[k][1]
             value == response[k][2]
         IN IF key = RETURN \/ IsTableParam(value)
            THEN BapiData(response, k - 1)
            ELSE DictSet(BapiData(response, k - 1), key, _transform_sap_field(value))

RECURSIVE BapiTables(_, _)
BapiTables(response, k) ==
    IF k = 0 THEN <<>>
    ELSE LET key == response[k][1]
             value == response[k][2]
         IN IF key # RETURN /\ IsTableParam(value)
            THEN DictSet(BapiTables(response, k - 1), key,
                         _transform_sap_table(value.items))
            ELSE BapiTables(response, k - 1)

\* The row count of the last table only.
RowsOfLastTable(tables, k) == IF k = 0 THEN 0 ELSE Len(tables[k][2].rows)

\* sum(...) over the tables
RECURSIVE SumRows(_, _)
SumRows(tables, k) ==
    IF k = 0 THEN 0 ELSE Len(tables[k][2].rows) + SumRows(tables, k - 1)

\* Whether _transform_bapi_result raises on the response.
BapiRaises(response) ==
    \/ ReturnRaises(response)
    \/ \E k \in 1..Len(response) :
          /\ response[k][1] # RETURN
          /\ IsTableParam(response[k][2])
          /\ TableRaises(response[k][2].items)

\* The dict _transform_bapi_result returns.
BapiResult(response) ==
    LET msgs == ReturnList(response)
        messages == [k \in 1..Len(msgs) |-> BapiMessage(msgs[k])]
        success == ~\E k \in 1..Len(msgs) : MsgType(msgs[k]) \in {<<"E">>, <<"A">>}
        tables == BapiTables(response, Len(response))
    IN [success |-> success,
        messages |-> messages,
        data |-> BapiData(response, Len(response)),
        tables |-> tables,
        metadata |-> [record_count |-> SumRows(tables, Len(tables)),
                      table_count |-> Len(tables),
                      has_errors |-> ~success,
                      message_count |-> Len(messages)]]

\* SAPTransformerCy._transform_bapi_result (transform_bapi_response)
TransformBapiResult ==
    /\ bapi_pc = "idle"
    /\ IF BapiRaises(bapi_response)
       THEN /\ bapi_pc' = "raised"
            /\ UNCHANGED bapi_result
       ELSE /\ bapi_pc' = "done"
            /\ bapi_result' = BapiResult(bapi_response)
    /\ UNCHANGED <<bapi_response, parser_result, parser_pc>>
    /\ UNCHANGED <<cfg_vars, pf_vars, data, lf_vars, sap_vars,
                   json_vars, val_vars, th_vars, frame_vars,
                   math_vars>>

\* The loop "for key, value in bapi_response.items()" of sap_bapi_response_parser.
RECURSIVE ParserData(_, _)
ParserData(response, k) ==
    IF k = 0 THEN <<>>
    ELSE LET key == response[k][1]
             value == response[k][2]
         IN IF key = RETURN \/ IsTableParam(value)
            THEN ParserData(response, k - 1)
            ELSE DictSet(ParserData(response, k - 1), key, value)

RECURSIVE ParserTables(_, _)
ParserTables(response, k) ==
    IF k = 0 THEN <<>>
    ELSE LET key == response[k][1]
             value == response[k][2]
         IN IF key # RETURN /\ IsTableParam(value)
            THEN DictSet(ParserTables(response, k - 1), key, value)
            ELSE ParserTables(response, k - 1)

\* The dict sap_bapi_response_parser returns.
ParserResult(response) ==
    LET msgs == ReturnList(response)
    IN [success |-> ~\E k \in 1..Len(msgs) : MsgType(msgs[k]) = <<"E">>,
        messages |-> [k \in 1..Len(msgs) |-> ParserMessage(msgs[k])],
        data |-> ParserData(response, Len(response)),
        tables |-> ParserTables(response, Len(response))]

\* sap_bapi_response_parser
SapBapiResponseParser ==
    /\ parser_pc = "idle"
    /\ IF ReturnRaises(bapi_response)
       THEN /\ parser_pc' = "raised"
            /\ UNCHANGED parser_result
       ELSE /\ parser_pc' = "done"
            /\ parser_result' = ParserResult(bapi_response)
    /\ UNCHANGED <<bapi_response, bapi_result, bapi_pc>>
    /\ UNCHANGED <<cfg_vars, pf_vars, data, lf_vars, sap_vars,
                   json_vars, val_vars, th_vars, frame_vars,
                   math_vars>>

\* ------------------------------------------------------- BAPI specification

RESULT == <<"R", "E", "S", "U", "L", "T">>
ITEMS == <<"I", "T", "E", "M", "S">>
COL_A == <<"A">>
COL_B == <<"B">>
COL_C == <<"C">>

MsgTypes == {"S", "I", "W", "E", "A", "X"}

\* RETURN messages: one without TYPE, and one of every type.
Msgs ==
    {Dict(<<>>)} \cup
    {Dict(<< <<TYPE, Str(<<t>>)>>, <<MESSAGE, Str(<<"I", "n", "v", "a", "l", "i", "d", " ", "d", "a", "t", "a">>)>> >>) : t \in MsgTypes}

\* An absent key is the empty list of items.
ReturnItems ==
    {<<>>} \cup
    {<< <<RETURN, m>> >> : m \in Msgs} \cup
    {<< <<RETURN, List(ms)>> >> : ms \in SeqsUpTo(Msgs, 0, MaxMsgs)}

\* Export parameters: strings, a number, None, an empty list, a nested object;
\* and a second table parameter of one row.
ResultItems ==
    {<<>>} \cup
    {<< <<RESULT, v>> >> :
        v \in {Str(<<"4", "2">>), Str(<<" ", "2", "0", "2", "3", "0", "6", "1", "5", " ">>), Num(42), None, List(<<>>),
               Dict(<< <<COL_A, Str(<<"1">>)>> >>),
               List(<< Dict(<< <<COL_A, Str(<<"1">>)>> >>) >>)}}

Rows ==
    {Dict(<< <<COL_A, Str(<<" ", "1", ",", "5", " ">>)>>, <<COL_B, Str(<<"x">>)>> >>),
     Dict(<< <<COL_B, Str(<<"y">>)>>, <<COL_C, Str(<<"z">>)>> >>)}

\* Table parameters: lists of rows, and a list that holds no dict.
TableItems ==
    {<<>>} \cup
    {<< <<ITEMS, List(rows)>> >> : rows \in SeqsUpTo(Rows, 1, MaxRows)} \cup
    {<< <<ITEMS, List(<<Str(<<"x">>)>>)>> >>}

\* The response of the example of the documentation.
ExampleBapi ==
    << <<RETURN, Dict(<< <<TYPE, Str(<<"E">>)>>, <<MESSAGE, Str(<<"I", "n", "v", "a", "l", "i", "d", " ", "d", "a", "t", "a">>)>> >>)>>,
       <<RESULT, Str(<<"4", "2">>)>> >>

InitBapi ==
    /\ bapi_response \in {r \o x \o t : r \in ReturnItems, x \in ResultItems, t \in TableItems}
    /\ bapi_result = [success |-> TRUE, messages |-> <<>>, data |-> <<>>,
                      tables |-> <<>>, metadata |-> <<>>]
    /\ bapi_pc = "idle"
    /\ parser_result = [success |-> TRUE, messages |-> <<>>, data |-> <<>>,
                        tables |-> <<>>]
    /\ parser_pc = "idle"
    /\ delimiter = ","
    /\ quotechar = "\""
    /\ file_content = <<>>
    /\ IdlePf
    /\ IdleLf
    /\ IdleSap
    /\ IdleJson
    /\ IdleVal
    /\ IdleThreads
    /\ IdleFrame
    /\ IdleMath

NextBapi ==
    \/ TransformBapiResult
    \/ SapBapiResponseParser

SpecBapi == InitBapi /\ [][NextBapi]_vars

\* ---------------------------------------------------------- JSONProcessorCy

\* mapping.get(old_key, old_key); the mapping is a dict of str to str.
NewKey(mapping, old_key) == DictGetOr(mapping, old_key, old_key)

RECURSIVE TransformDictFrom(_, _, _, _)
RECURSIVE TransformListFrom(_, _, _, _)

\* The loop "for old_key, value in obj.items()" of _transform_dict_fast from
\* item k on.
TransformDictFrom(obj, mapping, k, acc) ==
    IF k > Len(obj) THEN acc
    ELSE LET value == obj[k][2]
             transformed_value ==
                 IF value.kind = "dict"
                 THEN Dict(TransformDictFrom(value.d, mapping, 1, <<>>))
                 ELSE IF value.kind = "list"
                 THEN List(TransformListFrom(value.items, mapping, 1, <<>>))
                 ELSE value
         IN TransformDictFrom(obj, mapping, k + 1,
                              DictSet(acc, NewKey(mapping, obj[k][1]), transformed_value))

\* The loop "for item in obj" of _transform_list_fast from item k on.
TransformListFrom(obj, mapping, k, acc) ==
    IF k > Len(obj) THEN acc
    ELSE LET item == obj[k]
             transformed_item ==
                 IF item.kind = "dict"
                 THEN Dict(TransformDictFrom(item.d, mapping, 1, <<>>))
                 ELSE IF item.kind = "list"
                 THEN List(TransformListFrom(item.items, mapping, 1, <<>>))
                 ELSE item
         IN TransformListFrom(obj, mapping, k + 1, Append(acc, transformed_item))

_transform_dict_fast(obj, mapping) == TransformDictFrom(obj, mapping, 1, <<>>)

_transform_list_fast(obj, mapping) == TransformListFrom(obj, mapping, 1, <<>>)

\* A transform that leaves a list as it is.
transform_dicts_only(value, mapping) ==
    IF value.kind = "dict" THEN Dict(_transform_dict_fast(value.d, mapping)) ELSE value

\* The closure _transform of transform(data, mapping).
transform(value, mapping) ==
    IF value.kind = "dict" THEN Dict(_transform_dict_fast(value.d, mapping))
    ELSE IF value.kind = "list" THEN List(_transform_list_fast(value.items, mapping))
    ELSE value

\* items.update(flattened)
RECURSIVE DictUpdate(_, _)
DictUpdate(items, flattened) ==
    IF flattened = <<>> THEN items
    ELSE DictUpdate(DictSet(items, flattened[1][1], flattened[1][2]), Tail(flattened))

RECURSIVE FlattenDictFrom(_, _, _, _, _)
RECURSIVE FlattenListFrom(_, _, _, _, _)

\* The loop "for i in range(len(v))" of _flatten_dict_fast from index n on.
FlattenListFrom(v, new_key, sep, n, items) ==
    IF n >= Len(v) THEN items
    ELSE LET item == v[n + 1]
             item_key == new_key \o sep \o IntToStr(n)
         IN FlattenListFrom(v, new_key, sep, n + 1,
                IF item.kind = "dict"
                THEN DictUpdate(items, FlattenDictFrom(item.d, item_key, sep, 1, <<>>))
                ELSE DictSet(items, item_key, item))

\* The loop "for k, v in obj.items()" of _flatten_dict_fast from item k on.
FlattenDictFrom(obj, parent_key, sep, k, items) ==
    IF k > Len(obj) THEN items
    ELSE LET v == obj[k][2]
             new_key == IF parent_key # <<>>
                        THEN parent_key \o sep \o obj[k][1]
                        ELSE obj[k][1]
         IN FlattenDictFrom(obj, parent_key, sep, k + 1,
                IF v.kind = "dict"
                THEN DictUpdate(items, FlattenDictFrom(v.d, new_key, sep, 1, <<>>))
                ELSE IF v.kind = "list"
                THEN FlattenListFrom(v.items, new_key, sep, 0, items)
                ELSE DictSet(items, new_key, v))

_flatten_dict_fast(obj, parent_key, sep) == FlattenDictFrom(obj, parent_key, sep, 1, <<>>)

\* transform(data, mapping)
JsonTransform ==
    /\ json_pc = "idle"
    /\ json_out' = transform(json_data, json_mapping)
    /\ json_pc' = "transformed"
    /\ UNCHANGED <<json_data, json_mapping, json_sep, json_flat>>
    /\ UNCHANGED <<cfg_vars, pf_vars, data, lf_vars, sap_vars, bapi_vars,
                   val_vars, th_vars, frame_vars,
                   math_vars>>

\* flatten(data, sep): the argument is typed dict, any other value raises.
JsonFlatten ==
    /\ json_pc = "idle"
    /\ IF json_data.kind = "dict"
       THEN /\ json_flat' = _flatten_dict_fast(json_data.d, <<>>, json_sep)
            /\ json_pc' = "flattened"
       ELSE /\ json_flat' = <<>>
            /\ json_pc' = "raised"
    /\ UNCHANGED <<json_data, json_mapping, json_sep, json_out>>
    /\ UNCHANGED <<cfg_vars, pf_vars, data, lf_vars, sap_vars, bapi_vars,
                   val_vars, th_vars, frame_vars,
                   math_vars>>

\* ------------------------------------------------------- JSON specification

KEY_A == <<"a">>
KEY_B == <<"b">>
KEY_C == <<"c">>
KEY_A_B == <<"a", "_", "b">>

JsonKeys == {KEY_A, KEY_B}

JsonLeaves == {Num(1), Str(<<"x">>)}

\* The dicts with keys of JsonKeys, in every insertion order, over the values.
DictsOver(values) ==
    {<<>>}
    \cup {<< <<k, v>> >> : k \in JsonKeys, v \in values}
    \cup UNION {{<< <<k, v>>, <<q, w>> >> : q \in JsonKeys \ {k},
                                            v \in values, w \in values}
                   : k \in JsonKeys}

\* Values of nesting depth one: leaves, lists of leaves, dicts of leaves.
JsonLevel1 ==
    JsonLeaves
    \cup {List(l) : l \in SeqsUpTo(JsonLeaves, 0, MaxItems)}
    \cup {Dict(d) : d \in DictsOver(JsonLeaves)}

\* A list in a list, and a key that reads like a joined path.
JsonExamples ==
    { Dict(<< <<KEY_A, List(<<List(<<Num(1)>>)>>)>> >>),
      Dict(<< <<KEY_A_B, Num(1)>>, <<KEY_A, Dict(<< <<KEY_B, Str(<<"x">>)>> >>)>> >>) }

JsonValues ==
    JsonLevel1
    \cup {Dict(d) : d \in DictsOver(JsonLevel1)}
    \cup {List(l) : l \in SeqsUpTo(JsonLevel1, 0, MaxTopItems)}
    \cup JsonExamples

\* The key mappings: each key of JsonKeys is absent or renamed.
JsonMappings ==
    {<<>>}
    \cup {<< <<k, n>> >> : k \in JsonKeys, n \in JsonKeys \cup {KEY_C}}
    \cup {<< <<KEY_A, n>>, <<KEY_B, m>> >> : n \in JsonKeys \cup {KEY_C},
                                             m \in JsonKeys \cup {KEY_C}}

InitJson ==
    /\ json_data \in JsonValues
    /\ \/ json_mapping \in JsonMappings /\ json_sep = <<"_">>
       \/ json_mapping = <<>> /\ json_sep = <<".">>
    /\ json_out = None
    /\ json_flat = <<>>
    /\ json_pc = "idle"
    /\ delimiter = ","
    /\ quotechar = "\""
    /\ file_content = <<>>
    /\ IdlePf
    /\ IdleLf
    /\ IdleSap
    /\ IdleBapi
    /\ IdleVal
    /\ IdleThreads
    /\ IdleFrame
    /\ IdleMath

NextJson ==
    \/ JsonTransform
    \/ JsonFlatten

SpecJson == InitJson /\ [][NextJson]_vars

\* ------------------------------------------------------------- validators

\* A schema is a dict of field name to rule dict; a rule dict is a function on
\* the rule keys it holds ("required", "type", "min_length", "max_length",
\* "pattern").

\* str(value)
StrOf(value) ==
    IF value.kind = "str" THEN value.s
    ELSE IF value.kind = "num" THEN IntToStr(value.n)
    ELSE <<"N", "o", "n", "e">>

\* type(value).__name__
TypeName(value) ==
    IF value.kind = "str" THEN "str"
    ELSE IF value.kind = "num" THEN "int"
    ELSE "NoneType"

\* Whether int(s) returns (TRUE) or raises ValueError (FALSE).
IntParses(s) == DigitRun(Unsigned(Strip(s)))

\* field_rules.get('required', False)
RuleRequired(field_rules) ==
    IF "required" \in DOMAIN field_rules THEN field_rules.required ELSE FALSE

\* The absent field reported whatever the rule says.
MissingFieldAlwaysReported(record_idx, field_name, field_rules) ==
    << [record |-> record_idx, field |-> field_name,
        error |-> <<"Required field missing">>] >>

\* erp_data_validator: the errors of a schema field that is not in the record.
MissingFieldErrors(record_idx, field_name, field_rules) ==
    IF RuleRequired(field_rules)
    THEN << [record |-> record_idx, field |-> field_name,
             error |-> <<"Required field missing">>] >>
    ELSE <<>>

\* erp_data_validator: the errors of a schema field that is in the record.
PresentFieldErrors(record_idx, field_name, value, field_rules) ==
    LET field_value == StrOf(value)
        field_type == IF "type" \in DOMAIN field_rules THEN field_rules.type ELSE "string"
        type_errors ==
            IF field_type = "integer" /\ ~IntParses(field_value)
            THEN << [record |-> record_idx, field |-> field_name,
                     error |-> <<"Invalid integer: ", field_value>>] >>
            ELSE IF field_type = "float" /\ ~FloatParses(field_value)
            THEN << [record |-> record_idx, field |-> field_name,
                     error |-> <<"Invalid float: ", field_value>>] >>
            ELSE <<>>
        length_errors ==
            IF "max_length" \in DOMAIN field_rules
               /\ Len(field_value) > field_rules.max_length
            THEN << [record |-> record_idx, field |-> field_name,
                     error |-> <<"Value too long: ", Len(field_value), " > ",
                                 field_rules.max_length>>] >>
            ELSE <<>>
    IN type_errors \o length_errors

\* erp_data_validator: the loop over schema.items() for one record, from item k on.
RECURSIVE RecordErrorsFrom(_, _, _, _)
RecordErrorsFrom(record_idx, record, schema, k) ==
    IF k > Len(schema) THEN <<>>
    ELSE (IF schema[k][1] \notin DictKeys(record)
          THEN MissingFieldErrors(record_idx, schema[k][1], schema[k][2])
          ELSE PresentFieldErrors(record_idx, schema[k][1],
                                  DictGet(record, schema[k][1]), schema[k][2]))
         \o RecordErrorsFrom(record_idx, record, schema, k + 1)

\* erp_data_validator: the loop over range(len(data)) from index record_idx on.
RECURSIVE DataErrorsFrom(_, _, _)
DataErrorsFrom(records_list, schema, record_idx) ==
    IF record_idx >= Len(records_list) THEN <<>>
    ELSE RecordErrorsFrom(record_idx, records_list[record_idx + 1], schema, 1)
         \o DataErrorsFrom(records_list, schema, record_idx + 1)

\* erp_data_validator(data, schema)
ErpDataValidator ==
    /\ val_pc = "idle"
    /\ val_errors' = DataErrorsFrom(val_data, val_schema, 0)
    /\ val_pc' = "done"
    /\ UNCHANGED <<val_data, val_schema, jv_index, jv_errors, jv_pc>>
    /\ UNCHANGED <<cfg_vars, pf_vars, data, lf_vars, sap_vars, bapi_vars,
                   json_vars, th_vars, frame_vars,
                   math_vars>>

\* erp_json_validator: _validate_field(field_path, value, field_schema)
_validate_field(field_path, value, field_schema) ==
    LET field_type == IF "type" \in DOMAIN field_schema THEN field_schema.type ELSE "None"
        type_errors ==
            IF field_type = "string" /\ value.kind # "str"
            THEN << [path |-> field_path,
                     error |-> <<"Expected string, got ", TypeName(value)>>] >>
            ELSE IF field_type = "integer" /\ value.kind # "num"
            THEN << [path |-> field_path,
                     error |-> <<"Expected integer, got ", TypeName(value)>>] >>
            ELSE IF field_type = "number" /\ value.kind # "num"
            THEN << [path |-> field_path,
                     error |-> <<"Expected number, got ", TypeName(value)>>] >>
            ELSE <<>>
        min_errors ==
            IF "min_length" \in DOMAIN field_schema /\ value.kind = "str"
               /\ Len(value.s) < field_schema.min_length
            THEN << [path |-> field_path,
                     error |-> <<"String too short: ", Len(value.s), " < ",
                                 field_schema.min_length>>] >>
            ELSE <<>>
        max_errors ==
            IF "max_length" \in DOMAIN field_schema /\ value.kind = "str"
               /\ Len(value.s) > field_schema.max_length
            THEN << [path |-> field_path,
                     error |-> <<"String too long: ", Len(value.s), " > ",
                                 field_schema.max_length>>] >>
            ELSE <<>>
    IN IF value.kind = "none"
       THEN IF RuleRequired(field_schema)
            THEN << [path |-> field_path, error |-> <<"Required field is missing">>] >>
            ELSE <<>>
       ELSE type_errors \o min_errors \o max_errors

\* erp_json_validator: the loop over schema.items() from item k on.
RECURSIVE JsonErrorsFrom(_, _, _)
JsonErrorsFrom(record, schema, k) ==
    IF k > Len(schema) THEN <<>>
    ELSE _validate_field(schema[k][1], DictGetOr(record, schema[k][1], None), schema[k][2])
         \o JsonErrorsFrom(record, schema, k + 1)

\* erp_json_validator(data, schema) on the n-th record.
ErpJsonValidator(n) ==
    /\ jv_pc = "idle"
    /\ n \in 1..Len(val_data)
    /\ jv_index' = n
    /\ jv_errors' = JsonErrorsFrom(val_data[n], val_schema, 1)
    /\ jv_pc' = "done"
    /\ UNCHANGED <<val_data, val_schema, val_errors, val_pc>>
    /\ UNCHANGED <<cfg_vars, pf_vars, data, lf_vars, sap_vars, bapi_vars,
                   json_vars, th_vars, frame_vars,
                   math_vars>>

\* -------------------------------------------------- validator specification

FIELD_QTY == <<"q", "t", "y">>
FIELD_NAME == <<"n", "a", "m", "e">>

\* A pattern rule: the value is made of digits.
DigitsPattern == "^[0-9]+$"

NoRule == [x \in {} |-> 0]

\* The rule dicts of the field qty.
QtyRules ==
    {req @@ ty @@ len :
        req \in {NoRule, [required |-> TRUE]},
        ty \in {NoRule, [type |-> "integer"], [type |-> "float"], [type |-> "string"],
                [type |-> "number"]},
        len \in {NoRule, [min_length |-> MinLength], [max_length |-> MaxLength]}}
    \cup {[pattern |-> DigitsPattern], [type |-> "string", pattern |-> DigitsPattern]}

\* The rule dicts of the field name.
NameRules == {[type |-> "string"], [type |-> "string", required |-> TRUE]}

ValSchemas ==
    {<< <<FIELD_QTY, r>> >> : r \in QtyRules}
    \cup {<< <<FIELD_QTY, r>>, <<FIELD_NAME, q>> >> : r \in QtyRules, q \in NameRules}

ValValues == {Str(<<>>), Str(<<"1">>), Str(<<"a", "b">>), Num(12), None}

ValRecords ==
    {<<>>, << <<FIELD_NAME, Str(<<"x">>)>> >>,
     << <<FIELD_QTY, Str(<<"1">>)>>, <<FIELD_NAME, Str(<<"x">>)>> >>}
    \cup {<< <<FIELD_QTY, v>> >> : v \in ValValues}

InitVal ==
    /\ val_data \in SeqsUpTo(ValRecords, 0, MaxValRecords)
    /\ val_schema \in ValSchemas
    /\ val_errors = <<>>
    /\ val_pc = "idle"
    /\ jv_index = 0
    /\ jv_errors = <<>>
    /\ jv_pc = "idle"
    /\ delimiter = ","
    /\ quotechar = "\""
    /\ file_content = <<>>
    /\ IdlePf
    /\ IdleLf
    /\ IdleSap
    /\ IdleBapi
    /\ IdleJson
    /\ IdleThreads
    /\ IdleFrame
    /\ IdleMath

NextVal ==
    \/ ErpDataValidator
    \/ \E n \in 1..MaxValRecords : ErpJsonValidator(n)

SpecVal == InitVal /\ [][NextVal]_vars

\* ------------------------------------------ process_fast on worker threads

\* The worker threads, each running one process_fast call on the same
\* CSVProcessorCy instance (process hands the call to run_in_executor).
Threads == {"t1", "t2"}

\* process_fast: the data loop from line k on, run to its end.
RECURSIVE ProcessRowsFrom(_, _, _, _, _, _)
ProcessRowsFrom(ls, k, withHeader, hs, delim, quote) ==
    IF k > Len(ls) THEN <<>>
    ELSE (IF IsBlank(ls[k]) THEN <<>>
          ELSE <<RowRecord(withHeader, hs, _parse_csv_line_fast(ls[k], delim, quote))>>)
         \o ProcessRowsFrom(ls, k + 1, withHeader, hs, delim, quote)

\* process_fast(file_content, has_header) run alone, from call to return.
process_fast(content, withHeader, delim, quote) ==
    LET ls == Split(Strip(content), "\n")
    IN IF ls = <<>> THEN <<>>
       ELSE IF withHeader
       THEN ProcessRowsFrom(Tail(ls), 1, withHeader,
                            _parse_csv_line_fast(ls[1], delim, quote), delim, quote)
       ELSE ProcessRowsFrom(ls, 1, withHeader, <<>>, delim, quote)

\* A loop index kept in one place for all calls of the instance.
LoopIndexOfInstance(t) == th_i["t1"]

\* "cdef int i": the loop index is a local of the call of thread t.
LoopIndex(t) == th_i[t]

\* Thread t enters process_fast: lines, result, headers and the header row.
ThreadBegin(t) ==
    /\ th_pc[t] = "idle"
    /\ LET ls == Split(Strip(th_content[t]), "\n")
       IN IF ls = <<>>
          THEN /\ th_pc' = [th_pc EXCEPT ![t] = "done"]
               /\ UNCHANGED <<th_lines, th_headers>>
          ELSE /\ th_pc' = [th_pc EXCEPT ![t] = "rows"]
               /\ IF th_has_header[t]
                  THEN /\ th_headers' = [th_headers EXCEPT
                              ![t] = _parse_csv_line_fast(ls[1], delimiter, quotechar)]
                       /\ th_lines' = [th_lines EXCEPT ![t] = Tail(ls)]
                  ELSE /\ th_lines' = [th_lines EXCEPT ![t] = ls]
                       /\ UNCHANGED th_headers
    /\ UNCHANGED <<th_content, th_has_header, th_i, th_result>>
    /\ UNCHANGED <<cfg_vars, pf_vars, data, lf_vars, sap_vars, bapi_vars,
                   json_vars, val_vars, frame_vars,
                   math_vars>>

\* Thread t runs one iteration of "for i in range(len(lines))".
ThreadRow(t) ==
    /\ th_pc[t] = "rows"
    /\ LoopIndex(t) < Len(th_lines[t])
    /\ th_i' = [th_i EXCEPT ![t] = LoopIndex(t) + 1]
    /\ IF IsBlank(th_lines[t][LoopIndex(t) + 1])
       THEN UNCHANGED th_result
       ELSE th_result' = [th_result EXCEPT ![t] =
                Append(@, RowRecord(th_has_header[t], th_headers[t],
                           _parse_csv_line_fast(th_lines[t][LoopIndex(t) + 1],
                                                delimiter, quotechar)))]
    /\ UNCHANGED <<th_content, th_has_header, th_lines, th_headers, th_pc>>
    /\ UNCHANGED <<cfg_vars, pf_vars, data, lf_vars, sap_vars, bapi_vars,
                   json_vars, val_vars, frame_vars,
                   math_vars>>

\* Thread t returns result.
ThreadReturn(t) ==
    /\ th_pc[t] = "rows"
    /\ LoopIndex(t) >= Len(th_lines[t])
    /\ th_pc' = [th_pc EXCEPT ![t] = "done"]
    /\ UNCHANGED <<th_content, th_has_header, th_lines, th_i, th_headers, th_result>>
    /\ UNCHANGED <<cfg_vars, pf_vars, data, lf_vars, sap_vars, bapi_vars,
                   json_vars, val_vars, frame_vars,
                   math_vars>>

\* ----------------------------------------------------- thread specification

ThreadChars == {",", "a", "\n"}

\* Two files of several lines.
ThreadExamples ==
    { <<"a", ",", "b", "\n", "1", ",", "2", "\n", "3", ",", "4">>,
      <<"x", "\n", "\n", "y", "\n", "z">> }

ThreadContents == StrUpTo(ThreadChars, MaxThreadLen) \cup ThreadExamples

InitThreads ==
    /\ th_content \in [Threads -> ThreadContents]
    /\ th_has_header \in [Threads -> BOOLEAN]
    /\ th_lines = [t \in Threads |-> <<>>]
    /\ th_i = [t \in Threads |-> 0]
    /\ th_headers = [t \in Threads |-> <<>>]
    /\ th_result = [t \in Threads |-> <<>>]
    /\ th_pc = [t \in Threads |-> "idle"]
    /\ delimiter = ","
    /\ quotechar = "\""
    /\ file_content = <<>>
    /\ IdlePf
    /\ IdleLf
    /\ IdleSap
    /\ IdleBapi
    /\ IdleJson
    /\ IdleVal
    /\ IdleFrame
    /\ IdleMath

NextThreads ==
    \E t \in Threads :
        \/ ThreadBegin(t)
        \/ ThreadRow(t)
        \/ ThreadReturn(t)

SpecThreads == InitThreads /\ [][NextThreads]_vars

\* ------------------------------------------------ sap_csv_normalize, RFC table

\* str.endswith
EndsWith(s, suffix) ==
    Len(s) >= Len(suffix) /\ SubSeq(s, Len(s) - Len(suffix) + 1, Len(s)) = suffix

DATE_SUFFIX == <<"_", "D", "A", "T", "E">>
AMOUNT_SUFFIX == <<"_", "A", "M", "O", "U", "N", "T">>

\* sap_csv_normalize: the value stored for one item of a record (both str).
SapCsvNormalizeValue(key, value) ==
    IF value # <<>> /\ Head(value) = "0" /\ IsDigit(value) /\ Len(value) > 1
    THEN StripLeadingZeros(value)
    ELSE IF EndsWith(Upper(key), DATE_SUFFIX) /\ Len(value) = 8
    THEN IF value # <<"0", "0", "0", "0", "0", "0", "0", "0">>
         THEN SubSeq(value, 1, 4) \o <<"-">> \o SubSeq(value, 5, 6) \o <<"-">>
              \o SubSeq(value, 7, 8)
         ELSE value
    ELSE IF EndsWith(Upper(key), AMOUNT_SUFFIX) /\ value # <<>>
    THEN Replace(value, ",", ".")
    ELSE value

\* sap_csv_normalize: normalized_record of one record of str values.
SapCsvNormalizeRecord(record) ==
    [k \in 1..Len(record) |->
        <<record[k][1], Str(SapCsvNormalizeValue(record[k][1], record[k][2].s))>>]

DATA == <<"D", "A", "T", "A">>
FIELDS == <<"F", "I", "E", "L", "D", "S">>
FIELDNAME == <<"F", "I", "E", "L", "D", "N", "A", "M", "E">>
WA == <<"W", "A">>

\* Only the first field name and the first part are zipped.
RfcRowFirstFieldOnly(field_names, values, n, row_dict) ==
    IF field_names = <<>> \/ values = <<>> THEN <<>>
    ELSE << <<field_names[1], _transform_sap_field(Str(Strip(values[1])))>> >>

\* _transform_rfc_table_data: row_dict of one DATA row.
RECURSIVE RfcRowFrom(_, _, _, _)
RfcRowFrom(field_names, values, n, row_dict) ==
    IF n >= Min(Len(field_names), Len(values)) THEN row_dict
    ELSE RfcRowFrom(field_names, values, n + 1,
                    DictSet(row_dict, field_names[n + 1],
                            _transform_sap_field(Str(Strip(values[n + 1])))))

\* _transform_rfc_table_data: the records of rfc_response, in DATA order.
RfcRecords(rfc_response) ==
    LET data_rows == DictGetOr(rfc_response, DATA, List(<<>>)).items
        field_info == DictGetOr(rfc_response, FIELDS, List(<<>>)).items
        field_names == [k \in 1..Len(field_info) |->
                           DictGetOr(field_info[k].d, FIELDNAME, Str(<<>>)).s]
    IN [k \in 1..Len(data_rows) |->
           RfcRowFrom(field_names,
                      Split(DictGetOr(data_rows[k].d, WA, Str(<<>>)).s, "|"), 0, <<>>)]

\* ------------------------------------------------------------------ doubles

\* A C double holds a fixed number of significant bits; the model scales that
\* width down, so that sums that are not representable are reached with small
\* values. Every value here is an integer; a quotient is kept as the fraction
\* <<numerator, denominator>> of its (rounded) operands.
MantissaBits == 5

Abs(x) == IF x < 0 THEN 0 - x ELSE x

RECURSIVE Pow2(_)
Pow2(n) == IF n = 0 THEN 1 ELSE 2 * Pow2(n - 1)

\* The spacing of the doubles around a value of magnitude v.
RECURSIVE UlpFrom(_, _)
UlpFrom(v, q) == IF v < q * Pow2(MantissaBits) THEN q ELSE UlpFrom(v, 2 * q)

\* The double nearest to v, ties to the even mantissa.
RoundF(v) ==
    LET q == UlpFrom(Abs(v), 1)
        lo == (v \div q) * q
        r == v - lo
    IN IF 2 * r < q THEN lo
       ELSE IF 2 * r > q THEN lo + q
       ELSE IF (lo \div q) % 2 = 0 THEN lo ELSE lo + q

\* x + y and x * y on doubles
FAdd(x, y) == RoundF(x + y)

FMul(x, y) == RoundF(x * y)

\* ----------------------------------------------- fast_median, group aggregation

\* np.sort(arr): a sorted copy.
NpSort(arr) == SortSeq(arr, LAMBDA a, b : a < b)

\* fast_median(arr) as the fraction <<numerator, denominator>>.
fast_median(arr) ==
    LET n == Len(arr)
        sorted_arr == NpSort(arr)
    IN IF n = 0 THEN <<0, 1>>
       ELSE IF n % 2 = 1 THEN <<sorted_arr[(n \div 2) + 1], 1>>
       ELSE <<FAdd(sorted_arr[n \div 2], sorted_arr[(n \div 2) + 1]), 2>>

\* erp_group_aggregation: the dict groups after the positions from n on.
RECURSIVE GroupsFrom(_, _, _, _)
GroupsFrom(group_ids, values_arr, n, groups) ==
    IF n >= Len(values_arr) THEN groups
    ELSE GroupsFrom(group_ids, values_arr, n + 1,
             DictSet(groups, group_ids[n + 1],
                     Append(DictGetOr(groups, group_ids[n + 1], <<>>), values_arr[n + 1])))

\* erp_group_aggregation(group_ids, values, 'median'): the dict results.
GroupMedians(group_ids, values_arr) ==
    LET groups == GroupsFrom(group_ids, values_arr, 0, <<>>)
    IN [k \in 1..Len(groups) |-> <<groups[k][1], fast_median(groups[k][2])>>]

\* ------------------------------------------------- the objects of the calls

\* A reference to the object at an address, and an array object.
Ref(addr) == [kind |-> "ref", addr |-> addr]

Array(items) == [kind |-> "array", items |-> items]

\* The result is written into the object the call was given.
SourceObject(h, src) == src

\* "result = {}", "transformed = []", np.sort, np.array: the result of a call
\* is written to a new object, whatever the object src the call was given.
NewObject(h, src) == Len(h) + 1

\* The objects after obj was written at address addr.
Store(h, addr, obj) ==
    IF addr > Len(h) THEN Append(h, obj) ELSE [h EXCEPT ![addr] = obj]

\* The new record of one input record of a list operation.
RecordResult(op, rtype, record) ==
    IF op = "batch_transform_records" THEN TransformRecord(rtype, record)
    ELSE SapCsvNormalizeRecord(record)

\* batch_transform_records, sap_csv_normalize: the loop over the list from
\* item k on; the objects and the references appended to the new list.
RECURSIVE MapRecordsFrom(_, _, _, _, _, _)
MapRecordsFrom(h, op, rtype, refs, k, outs) ==
    IF k > Len(refs) THEN <<h, outs>>
    ELSE LET src == refs[k].addr
             addr == NewObject(h, src)
         IN MapRecordsFrom(Store(h, addr, Dict(RecordResult(op, rtype, h[src].d))),
                           op, rtype, refs, k + 1, Append(outs, Ref(addr)))

\* batch_transform_records(records, record_type): a new list of new records.
CallBatchTransformRecords(rtype) ==
    /\ frame_pc = "idle"
    /\ frame_op = "batch_transform_records"
    /\ LET list_addr == frame_args[1]
           mapped == MapRecordsFrom(heap, "batch_transform_records", rtype, heap[list_addr].items, 1, <<>>)
           out_addr == NewObject(mapped[1], list_addr)
       IN /\ heap' = Store(mapped[1], out_addr, List(mapped[2]))
          /\ frame_out' = {out_addr} \cup {mapped[2][k].addr : k \in 1..Len(mapped[2])}
    /\ frame_pc' = "done"
    /\ UNCHANGED <<heap_before, frame_args, frame_op>>
    /\ UNCHANGED <<cfg_vars, pf_vars, data, lf_vars, sap_vars, bapi_vars,
                   json_vars, val_vars, th_vars, math_vars>>

\* sap_csv_normalize(data): a new list of new records.
CallSapCsvNormalize ==
    /\ frame_pc = "idle"
    /\ frame_op = "sap_csv_normalize"
    /\ LET list_addr == frame_args[1]
           mapped == MapRecordsFrom(heap, "sap_csv_normalize", "generic", heap[list_addr].items, 1, <<>>)
           out_addr == NewObject(mapped[1], list_addr)
       IN /\ heap' = Store(mapped[1], out_addr, List(mapped[2]))
          /\ frame_out' = {out_addr} \cup {mapped[2][k].addr : k \in 1..Len(mapped[2])}
    /\ frame_pc' = "done"
    /\ UNCHANGED <<heap_before, frame_args, frame_op>>
    /\ UNCHANGED <<cfg_vars, pf_vars, data, lf_vars, sap_vars, bapi_vars,
                   json_vars, val_vars, th_vars, math_vars>>

\* _transform_rfc_table_data(rfc_data): the list of the records of rfc_data[0].
RfcTable(h, list_addr) ==
    LET rows == RfcRecords(h[h[list_addr].items[1].addr].d)
    IN List([k \in 1..Len(rows) |-> Dict(rows[k])])

\* transform(data, mapping)
CallTransform ==
    /\ frame_pc = "idle"
    /\ frame_op = "transform"
    /\ LET out_addr == NewObject(heap, frame_args[1])
       IN /\ heap' = Store(heap, out_addr, transform(heap[frame_args[1]], heap[frame_args[2]].d))
          /\ frame_out' = {out_addr}
    /\ frame_pc' = "done"
    /\ UNCHANGED <<heap_before, frame_args, frame_op>>
    /\ UNCHANGED <<cfg_vars, pf_vars, data, lf_vars, sap_vars, bapi_vars,
                   json_vars, val_vars, th_vars, math_vars>>

\* flatten(data, separator)
CallFlatten ==
    /\ frame_pc = "idle"
    /\ frame_op = "flatten"
    /\ LET out_addr == NewObject(heap, frame_args[1])
       IN /\ heap' = Store(heap, out_addr, Dict(_flatten_dict_fast(heap[frame_args[1]].d, <<>>, <<"_">>)))
          /\ frame_out' = {out_addr}
    /\ frame_pc' = "done"
    /\ UNCHANGED <<heap_before, frame_args, frame_op>>
    /\ UNCHANGED <<cfg_vars, pf_vars, data, lf_vars, sap_vars, bapi_vars,
                   json_vars, val_vars, th_vars, math_vars>>

\* _transform_bapi_result(response)
CallTransformBapiResult ==
    /\ frame_pc = "idle"
    /\ frame_op = "_transform_bapi_result"
    /\ LET out_addr == NewObject(heap, frame_args[1])
       IN /\ heap' = Store(heap, out_addr, BapiResult(heap[frame_args[1]].d))
          /\ frame_out' = {out_addr}
    /\ frame_pc' = "done"
    /\ UNCHANGED <<heap_before, frame_args, frame_op>>
    /\ UNCHANGED <<cfg_vars, pf_vars, data, lf_vars, sap_vars, bapi_vars,
                   json_vars, val_vars, th_vars, math_vars>>

\* _transform_rfc_table_data(rfc_data)
CallTransformRfcTableData ==
    /\ frame_pc = "idle"
    /\ frame_op = "_transform_rfc_table_data"
    /\ LET out_addr == NewObject(heap, frame_args[1])
       IN /\ heap' = Store(heap, out_addr, RfcTable(heap, frame_args[1]))
          /\ frame_out' = {out_addr}
    /\ frame_pc' = "done"
    /\ UNCHANGED <<heap_before, frame_args, frame_op>>
    /\ UNCHANGED <<cfg_vars, pf_vars, data, lf_vars, sap_vars, bapi_vars,
                   json_vars, val_vars, th_vars, math_vars>>

\* fast_median(arr): sorted_arr is the new object.
CallFastMedian ==
    /\ frame_pc = "idle"
    /\ frame_op = "fast_median"
    /\ LET out_addr == NewObject(heap, frame_args[1])
       IN /\ heap' = Store(heap, out_addr, Array(NpSort(heap[frame_args[1]].items)))
          /\ frame_out' = {out_addr}
    /\ frame_pc' = "done"
    /\ UNCHANGED <<heap_before, frame_args, frame_op>>
    /\ UNCHANGED <<cfg_vars, pf_vars, data, lf_vars, sap_vars, bapi_vars,
                   json_vars, val_vars, th_vars, math_vars>>

\* erp_group_aggregation(group_ids, values, 'median'): results is the new object.
CallErpGroupAggregation ==
    /\ frame_pc = "idle"
    /\ frame_op = "erp_group_aggregation"
    /\ LET out_addr == NewObject(heap, frame_args[1])
       IN /\ heap' = Store(heap, out_addr, Dict(GroupMedians(heap[frame_args[1]].items, heap[frame_args[2]].items)))
          /\ frame_out' = {out_addr}
    /\ frame_pc' = "done"
    /\ UNCHANGED <<heap_before, frame_args, frame_op>>
    /\ UNCHANGED <<cfg_vars, pf_vars, data, lf_vars, sap_vars, bapi_vars,
                   json_vars, val_vars, th_vars, math_vars>>

\* ----------------------------------------------------- object specification

POST_DATE == <<"p", "o", "s", "t", "_", "d", "a", "t", "e">>
NET_AMOUNT == <<"N", "E", "T", "_", "A", "M", "O", "U", "N", "T">>

FrameStrings ==
    { <<"0", "0", "0", "1", "2", "3", "4", "5">>,
      <<"2", "0", "2", "3", "0", "6", "1", "5">>,
      <<"1", ",", "5">>,
      <<" ", "a", " ">> }

\* Records of one str field.
FrameRecords ==
    {Dict(<< <<key, Str(s)>> >>) : key \in {MATNR, POST_DATE, NET_AMOUNT}, s \in FrameStrings}

\* The objects of a call on a list of records: the records, then the list.
RecordListHeaps ==
    {Append(recs, List([k \in 1..Len(recs) |-> Ref(k)]))
        : recs \in SeqsUpTo(FrameRecords, 0, MaxRecords)}

\* RFC_READ_TABLE responses: FIELDS and DATA rows.
RfcResponses ==
    {Dict(<< <<FIELDS, List(fs)>>, <<DATA, List(rows)>> >>)
        : fs \in SeqsUpTo({Dict(<< <<FIELDNAME, Str(MATNR)>> >>),
                           Dict(<< <<FIELDNAME, Str(ERSDA)>> >>)}, 0, MaxRows),
          rows \in SeqsUpTo({Dict(<< <<WA, Str(<<"0", "1", "|", " ", "a">>)>> >>),
                             Dict(<< <<WA, Str(<<"2", "0", "2", "3", "0", "6", "1", "5">>)>> >>)},
                            0, MaxRows)}

ArrayValues == 1..MaxArrayValue

Arrays == SeqsUpTo(ArrayValues, 0, MaxArrayLen)

InitFrame ==
    /\ \/ /\ frame_op \in {"batch_transform_records", "sap_csv_normalize"}
          /\ heap \in RecordListHeaps
          /\ frame_args = <<Len(heap)>>
       \/ /\ frame_op = "transform"
          /\ heap \in {<<v, Dict(m)>> : v \in {w \in JsonLevel1 : w.kind \in {"dict", "list"}},
                                        m \in JsonMappings}
          /\ frame_args = <<1, 2>>
       \/ /\ frame_op = "flatten"
          /\ heap \in {<<v>> : v \in {w \in JsonValues : w.kind = "dict"}}
          /\ frame_args = <<1>>
       \/ /\ frame_op = "_transform_bapi_result"
          /\ heap \in {<<Dict(r \o x)>> : r \in ReturnItems, x \in ResultItems}
          /\ ~BapiRaises(heap[1].d)
          /\ frame_args = <<1>>
       \/ /\ frame_op = "_transform_rfc_table_data"
          /\ heap \in {<<r, List(<<Ref(1)>>)>> : r \in RfcResponses}
          /\ frame_args = <<2>>
       \/ /\ frame_op = "fast_median"
          /\ heap \in {<<Array(a)>> : a \in Arrays}
          /\ frame_args = <<1>>
       \/ /\ frame_op = "erp_group_aggregation"
          /\ heap \in {<<Array(g), Array(v)>> : g \in Arrays, v \in Arrays}
          /\ Len(heap[1].items) = Len(heap[2].items)
          /\ frame_args = <<1, 2>>
    /\ heap_before = heap
    /\ frame_out = {}
    /\ frame_pc = "idle"
    /\ delimiter = ","
    /\ quotechar = "\""
    /\ file_content = <<>>
    /\ IdlePf
    /\ IdleLf
    /\ IdleSap
    /\ IdleBapi
    /\ IdleJson
    /\ IdleVal
    /\ IdleThreads
    /\ IdleMath

NextFrame ==
    \/ \E rtype \in RecordTypes : CallBatchTransformRecords(rtype)
    \/ CallSapCsvNormalize
    \/ CallTransform
    \/ CallFlatten
    \/ CallTransformBapiResult
    \/ CallTransformRfcTableData
    \/ CallFastMedian
    \/ CallErpGroupAggregation

SpecFrame == InitFrame /\ [][NextFrame]_vars

\* ----------------------------------------------------------- math utilities

\* fast_sum(arr): result += arr[i] in index order.
RECURSIVE FastSumFrom(_, _, _)
FastSumFrom(arr, k, total) ==
    IF k > Len(arr) THEN total ELSE FastSumFrom(arr, k + 1, FAdd(total, arr[k]))

fast_sum(arr) == FastSumFrom(arr, 1, 0)

\* The total is returned undivided.
MeanWithoutCount(arr) == <<fast_sum(arr), 1>>

\* fast_mean(arr): total / n, 0.0 for the empty array.
fast_mean(arr) == IF Len(arr) = 0 THEN <<0, 1>> ELSE <<fast_sum(arr), Len(arr)>>

\* The sum of (n * arr[i] - total)^2 from index k on.
RECURSIVE SquaresFrom(_, _, _)
SquaresFrom(arr, total, k) ==
    IF k > Len(arr) THEN 0
    ELSE (Len(arr) * arr[k] - total) * (Len(arr) * arr[k] - total)
         + SquaresFrom(arr, total, k + 1)

\* fast_std(arr): the square root of the variance with denominator n - 1,
\* 0.0 when n <= 1; the variance is kept under the root as a fraction.
fast_std(arr) ==
    IF Len(arr) <= 1 THEN [sqrt |-> <<0, 1>>]
    ELSE [sqrt |-> <<SquaresFrom(arr, fast_sum(arr), 1),
                     Len(arr) * Len(arr) * (Len(arr) - 1)>>]

\* min(group_values), max(group_values)
MinOf(arr) == CHOOSE x \in {arr[k] : k \in 1..Len(arr)} : \A k \in 1..Len(arr) : x <= arr[k]

MaxOf(arr) == CHOOSE x \in {arr[k] : k \in 1..Len(arr)} : \A k \in 1..Len(arr) : x >= arr[k]

\* erp_group_aggregation: the entry of one group; no entry is written for an
\* agg_func that matches no branch.
Aggregate(agg_func, group_values) ==
    IF agg_func = "sum" THEN <<fast_sum(group_values), 1>>
    ELSE IF agg_func = "mean" THEN fast_mean(group_values)
    ELSE IF agg_func = "std" THEN fast_std(group_values)
    ELSE IF agg_func = "median" THEN fast_median(group_values)
    ELSE IF agg_func = "count" THEN <<Len(group_values), 1>>
    ELSE IF agg_func = "min" THEN <<MinOf(group_values), 1>>
    ELSE <<MaxOf(group_values), 1>>

BranchAggFuncs == {"sum", "mean", "std", "median", "count", "min", "max"}

\* erp_group_aggregation(group_ids, values, agg_func), with group_ids as read
\* at the positions of values: the dict results.
erp_group_aggregation(group_ids, values_arr, agg_func) ==
    LET groups == GroupsFrom(group_ids, values_arr, 0, <<>>)
    IN IF agg_func \in BranchAggFuncs
       THEN [k \in 1..Len(groups) |-> <<groups[k][1], Aggregate(agg_func, groups[k][2])>>]
       ELSE <<>>

\* vector_operations: result[i]; zeros are left for an operation that matches
\* no branch.
VectorEntry(x, y, operation) ==
    IF operation = "add" THEN <<FAdd(x, y), 1>>
    ELSE IF operation = "subtract" THEN <<FAdd(x, 0 - y), 1>>
    ELSE IF operation = "multiply" THEN <<FMul(x, y), 1>>
    ELSE IF operation = "divide" THEN (IF y # 0 THEN <<x, y>> ELSE <<0, 1>>)
    ELSE <<0, 1>>

\* vector_operations(a, b, operation), with b as read at the positions of a.
vector_operations(a, b, operation) ==
    [k \in 1..Len(a) |-> VectorEntry(a[k], b[k], operation)]

\* matrix_operations: temp after the terms from k on were added.
RECURSIVE DotFrom(_, _, _, _, _, _)
DotFrom(matrix_a, matrix_b, r, c, k, temp) ==
    IF k > Len(matrix_a[1]) THEN temp
    ELSE DotFrom(matrix_a, matrix_b, r, c, k + 1,
                 FAdd(temp, FMul(matrix_a[r][k], matrix_b[k][c])))

\* matrix_operations(matrix_a, matrix_b, operation) on matrices of at least
\* one row and column: the result, Raised for a dimension mismatch, None for
\* an operation that matches no branch.
matrix_operations(matrix_a, matrix_b, operation) ==
    LET rows_a == Len(matrix_a)
        cols_a == Len(matrix_a[1])
        rows_b == Len(matrix_b)
        cols_b == Len(matrix_b[1])
    IN IF operation = "multiply"
       THEN IF cols_a # rows_b THEN Raised
            ELSE Array([r \in 1..rows_a |-> [c \in 1..cols_b |->
                     DotFrom(matrix_a, matrix_b, r, c, 1, 0)]])
       ELSE IF operation = "add"
       THEN IF rows_a # rows_b \/ cols_a # cols_b THEN Raised
            ELSE Array([r \in 1..rows_a |-> [c \in 1..cols_a |->
                     FAdd(matrix_a[r][c], matrix_b[r][c])]])
       ELSE None

\* max(a, b)
Max(a, b) == IF a > b THEN a ELSE b

\* moving_average: start_idx of index i (from 0).
StartIdx(idx, window_size) == Max(0, idx - window_size + 1)

\* moving_average: window_sum of index i (from 0), values[start_idx .. i].
WindowSum(values_arr, idx, window_size) ==
    IF StartIdx(idx, window_size) > idx THEN 0
    ELSE fast_sum(SubSeq(values_arr, StartIdx(idx, window_size) + 1, idx + 1))

\* moving_average: whether the division of some index divides by zero.
MovingAverageRaises(values_arr, window_size) ==
    \E idx \in 0..(Len(values_arr) - 1) : idx - StartIdx(idx, window_size) + 1 = 0

\* moving_average(values, window_size): result, each entry the fraction
\* window_sum / (i - start_idx + 1).
moving_average(values_arr, window_size) ==
    [k \in 1..Len(values_arr) |->
        <<WindowSum(values_arr, k - 1, window_size),
          (k - 1) - StartIdx(k - 1, window_size) + 1>>]

\* A read of arr at the positions 1..n: the items of arr where it has them,
\* and whatever memory holds (pad) past its end.
ReadUpTo(arr, n, pad) ==
    [k \in 1..n |-> IF k <= Len(arr) THEN arr[k] ELSE pad[k - Len(arr)]]

\* What a read past the end of a buffer may return.
GarbageIds == {1, 7}

GarbageDoubles == {0, 32}

\* erp_group_aggregation(group_ids, values, agg_func): group_ids[i] is read for
\* every position of values without a bounds check.
ErpGroupAggregation(agg_func) ==
    /\ math_pc = "idle"
    /\ math_op = "erp_group_aggregation"
    /\ math_func' = agg_func
    /\ LET n == Len(math_b)
           missing == Max(0, n - Len(math_a))
       IN \/ \E pad \in SeqsUpTo(GarbageIds, missing, missing) :
                /\ math_out' = erp_group_aggregation(ReadUpTo(math_a, n, pad), math_b, agg_func)
                /\ math_pc' = "done"
          \/ /\ missing > 0
             /\ math_out' = <<>>
             /\ math_pc' = "crashed"
    /\ UNCHANGED <<math_op, math_a, math_b, math_window>>
    /\ UNCHANGED <<cfg_vars, pf_vars, data, lf_vars, sap_vars, bapi_vars,
                   json_vars, val_vars, th_vars, frame_vars>>

\* vector_operations(a, b, operation): b[i] is read for every position of a
\* without a bounds check.
VectorOperations(operation) ==
    /\ math_pc = "idle"
    /\ math_op = "vector_operations"
    /\ math_func' = operation
    /\ LET n == Len(math_a)
           missing == Max(0, n - Len(math_b))
       IN \/ \E pad \in SeqsUpTo(GarbageDoubles, missing, missing) :
                /\ math_out' = vector_operations(math_a, ReadUpTo(math_b, n, pad), operation)
                /\ math_pc' = "done"
          \/ /\ missing > 0
             /\ math_out' = <<>>
             /\ math_pc' = "crashed"
    /\ UNCHANGED <<math_op, math_a, math_b, math_window>>
    /\ UNCHANGED <<cfg_vars, pf_vars, data, lf_vars, sap_vars, bapi_vars,
                   json_vars, val_vars, th_vars, frame_vars>>

\* matrix_operations(matrix_a, matrix_b, operation)
MatrixOperations(operation) ==
    /\ math_pc = "idle"
    /\ math_op = "matrix_operations"
    /\ math_func' = operation
    /\ math_out' = matrix_operations(math_a, math_b, operation)
    /\ math_pc' = IF matrix_operations(math_a, math_b, operation).kind = "raise"
                  THEN "raised" ELSE "done"
    /\ UNCHANGED <<math_op, math_a, math_b, math_window>>
    /\ UNCHANGED <<cfg_vars, pf_vars, data, lf_vars, sap_vars, bapi_vars,
                   json_vars, val_vars, th_vars, frame_vars>>

\* moving_average(values, window_size): the division raises ZeroDivisionError
\* for a zero divisor.
MovingAverage(window_size) ==
    /\ math_pc = "idle"
    /\ math_op = "moving_average"
    /\ math_window' = window_size
    /\ IF MovingAverageRaises(math_a, window_size)
       THEN /\ math_out' = <<>>
            /\ math_pc' = "raised"
       ELSE /\ math_out' = moving_average(math_a, window_size)
            /\ math_pc' = "done"
    /\ UNCHANGED <<math_op, math_func, math_a, math_b>>
    /\ UNCHANGED <<cfg_vars, pf_vars, data, lf_vars, sap_vars, bapi_vars,
                   json_vars, val_vars, th_vars, frame_vars>>

\* ------------------------------------------------------- math specification

AggFuncs == BranchAggFuncs \cup {"avg"}

VectorOps == {"add", "subtract", "multiply", "divide", "mod"}

MatrixOps == {"multiply", "add", "subtract"}

GroupIds == {1, 2}

\* Doubles: small ones, and 32, next to which the doubles are 2 apart.
MathValues == {0 - 32, 1, 32}

MathExamples == {<<10, 20, 5>>, <<1, 2, 3>>}

ValueArrays == SeqsUpTo(MathValues, 0, MaxMathLen) \cup MathExamples

IdArrays == SeqsUpTo(GroupIds, 0, MaxMathLen)

\* The matrix of r rows and c columns with entry f[row, column].
Matrix(r, c, f) == [x \in 1..r |-> [y \in 1..c |-> f[<<x, y>>]]]

Dims == 1..MaxDim

MatricesA ==
    UNION {{Matrix(r, c, f) : f \in [(1..r) \X (1..c) -> {1, 2}]} : r \in Dims, c \in Dims}

MatricesB ==
    UNION {{Matrix(r, c, [p \in (1..r) \X (1..c) |-> 1]),
            Matrix(r, c, [p \in (1..r) \X (1..c) |-> p[1] + 2 * p[2]])} : r \in Dims, c \in Dims}

Windows == (0 - 1)..MaxWindow

InitMath ==
    /\ \/ /\ math_op = "erp_group_aggregation"
          /\ math_a \in IdArrays
          /\ math_b \in ValueArrays
       \/ /\ math_op = "vector_operations"
          /\ math_a \in ValueArrays
          /\ math_b \in ValueArrays
       \/ /\ math_op = "matrix_operations"
          /\ math_a \in MatricesA
          /\ math_b \in MatricesB
       \/ /\ math_op = "moving_average"
          /\ math_a \in ValueArrays
          /\ math_b = <<>>
    /\ math_func = "none"
    /\ math_window = 0
    /\ math_out = <<>>
    /\ math_pc = "idle"
    /\ delimiter = ","
    /\ quotechar = "\""
    /\ file_content = <<>>
    /\ IdlePf
    /\ IdleLf
    /\ IdleSap
    /\ IdleBapi
    /\ IdleJson
    /\ IdleVal
    /\ IdleThreads
    /\ IdleFrame

NextMath ==
    \/ \E agg_func \in AggFuncs : ErpGroupAggregation(agg_func)
    \/ \E operation \in VectorOps : VectorOperations(operation)
    \/ \E operation \in MatrixOps : MatrixOperations(operation)
    \/ \E window_size \in Windows : MovingAverage(window_size)

SpecMath == InitMath /\ [][NextMath]_vars

\* ------------------------------------------------- the tokenizer on bytes

\* A character that UTF-8 encodes in two bytes (e with acute accent), and its bytes.
TwoByteChar == "U+00E9"

LeadByte == "0xC3"

ContinuationByte == "0xA9"

\* str.encode('utf-8')
RECURSIVE EncodeUtf8(_)
EncodeUtf8(s) ==
    IF s = <<>> THEN <<>>
    ELSE (IF Head(s) = TwoByteChar THEN <<LeadByte, ContinuationByte>> ELSE <<Head(s)>>)
         \o EncodeUtf8(Tail(s))

\* Whether bytes.decode('utf-8') raises UnicodeDecodeError: a lead byte without
\* its continuation byte, or a continuation byte without its lead byte.
DecodeRaises(bytes) ==
    \E k \in 1..Len(bytes) :
       \/ bytes[k] = LeadByte /\ (k = Len(bytes) \/ bytes[k + 1] # ContinuationByte)
       \/ bytes[k] = ContinuationByte /\ (k = 1 \/ bytes[k - 1] # LeadByte)

\* bytes.decode('utf-8') of bytes that decode
RECURSIVE DecodeUtf8(_)
DecodeUtf8(bytes) ==
    IF bytes = <<>> THEN <<>>
    ELSE IF Head(bytes) = LeadByte THEN <<TwoByteChar>> \o DecodeUtf8(Tail(Tail(bytes)))
    ELSE <<Head(bytes)>> \o DecodeUtf8(Tail(bytes))

\* _parse_csv_line_fast(char* line, int line_length): the slices
\* line[field_start:i] the loop and the last-field code cut, from index k on.
RECURSIVE ScanSlices(_, _, _, _, _, _, _, _)
ScanSlices(bytes, line_length, delim, quote, k, field_start, in_quotes, acc) ==
    IF k >= line_length
    THEN Append(acc, SubSeq(bytes, field_start + 1, line_length))
    ELSE LET c == bytes[k + 1]
         IN IF c = quote
            THEN ScanSlices(bytes, line_length, delim, quote, k + 1, field_start,
                            1 - in_quotes, acc)
            ELSE IF c = delim /\ in_quotes = 0
            THEN ScanSlices(bytes, line_length, delim, quote, k + 1, k + 1, in_quotes,
                            Append(acc, SubSeq(bytes, field_start + 1, k)))
            ELSE ScanSlices(bytes, line_length, delim, quote, k + 1, field_start,
                            in_quotes, acc)

\* The slices of the call "_parse_csv_line_fast(line.encode('utf-8'), len(line))":
\* line_length is the number of characters of the line, not of its bytes.
LineSlices(ln, delim, quote) ==
    ScanSlices(EncodeUtf8(ln), Len(ln), delim, quote, 0, 0, 0, <<>>)

\* Whether that call raises: a slice does not decode.
ParseLineRaises(ln, delim, quote) ==
    \E n \in 1..Len(LineSlices(ln, delim, quote)) :
       DecodeRaises(LineSlices(ln, delim, quote)[n])

\* The fields that call returns when it does not raise.
ParseLineFields(ln, delim, quote) ==
    [n \in 1..Len(LineSlices(ln, delim, quote)) |->
        UnquoteField(Strip(DecodeUtf8(LineSlices(ln, delim, quote)[n])))]

\* One call of the tokenizer on the line.
TokenizeLine ==
    /\ pc = "idle"
    /\ IF ParseLineRaises(line, delimiter, quotechar)
       THEN /\ fields' = <<>>
            /\ pc' = "raised"
       ELSE /\ fields' = ParseLineFields(line, delimiter, quotechar)
            /\ pc' = "done"
    /\ UNCHANGED <<has_header, lines, i, headers, line, result>>
    /\ UNCHANGED <<cfg_vars, data, lf_vars, sap_vars, bapi_vars,
                   json_vars, val_vars, th_vars, frame_vars,
                   math_vars>>

TokChars == {",", "\"", "a", " ", TwoByteChar}

TokLines == StrUpTo(TokChars, MaxTokLen)

InitTok ==
    /\ delimiter \in Delimiters
    /\ quotechar \in Quotechars
    /\ file_content = <<>>
    /\ has_header = FALSE
    /\ lines = <<>>
    /\ i = 0
    /\ headers = <<>>
    /\ line \in TokLines
    /\ fields = <<>>
    /\ result = <<>>
    /\ pc = "idle"
    /\ IdleLf
    /\ IdleSap
    /\ IdleBapi
    /\ IdleJson
    /\ IdleVal
    /\ IdleThreads
    /\ IdleFrame
    /\ IdleMath

NextTok == TokenizeLine

SpecTok == InitTok /\ [][NextTok]_vars

\* ================================================================== claims

NotBlank(ln) == ~IsBlank(ln)

\* The number of quote characters of ln before position k (1-based).
QuotesBefore(ln, k, quote) == Cardinality({p \in 1..(k - 1) : ln[p] = quote})

\* The delimiter occurrences with an even number of quote characters before them.
SplitPoints(ln, delim, quote) ==
    {k \in 1..Len(ln) : ln[k] = delim /\ QuotesBefore(ln, k, quote) % 2 = 0}

\* The n-th split point in line order; 0 before the first, Len + 1 after the last.
SplitPoint(ln, delim, quote, n) ==
    LET S == SplitPoints(ln, delim, quote)
    IN IF n = 0 THEN 0
       ELSE IF n > Cardinality(S) THEN Len(ln) + 1
       ELSE CHOOSE k \in S : Cardinality({q \in S : q < k}) = n - 1

\* fs is the split of ln exactly at its split points, in line order.
SplitsAtSplitPoints(ln, delim, quote, fs) ==
    /\ Len(fs) = 1 + Cardinality(SplitPoints(ln, delim, quote))
    /\ \A n \in 1..Len(fs) :
          fs[n] = ExtractField(ln, SplitPoint(ln, delim, quote, n - 1),
                               SplitPoint(ln, delim, quote, n) - 1)

ExampleRecords ==
    <<
      <<<<<<"i", "d">>,
          <<"1">>>>,
        <<<<"n", "a", "m", "e">>,
          <<"A", "c", "m", "e", ",", " ", "I", "n", "c", ".">>>>,
        <<<<"a", "m", "o", "u", "n", "t">>,
          <<"1", "0", "0", ".", "5", "0">>>>>>,
      <<<<<<"i", "d">>,
          <<"2">>>>,
        <<<<"n", "a", "m", "e">>,
          <<"B", "e", "t", "a", " ", "C", "o", "r", "p">>>>,
        <<<<"a", "m", "o", "u", "n", "t">>,
          <<"2", "0", "0", ".", "0", "0">>>>>>
    >>

ExampleHolds ==
    (/\ file_content = ExampleCsv
     /\ pc = "done"
     /\ has_header
     /\ delimiter = ","
     /\ quotechar = "\"")
    => result = ExampleRecords

ZipsEveryColumn(hs, fs, record) ==
    /\ DictKeys(record) = {hs[j] : j \in 1..Min(Len(hs), Len(fs))}
    /\ \A j \in 1..Min(Len(hs), Len(fs)) : DictGet(record, hs[j]) = fs[j]

\* The zip of one data row: a header name that occurs again further right (below
\* the minimum) keeps the value of its last occurrence.
ZipsLastOccurrence(hs, fs, record) ==
    /\ DictKeys(record) = {hs[j] : j \in 1..Min(Len(hs), Len(fs))}
    /\ \A j \in 1..Min(Len(hs), Len(fs)) :
          (\A q \in (j + 1)..Min(Len(hs), Len(fs)) : hs[q] # hs[j])
             => DictGet(record, hs[j]) = fs[j]

\* The non-blank data lines of the finished call, in order.
DataRows == SelectSeq(lines, NotBlank)

\* C2 as stated: with has_header, every data row becomes the record that maps
\* headers[j] to fields[j] for every j below min(len(headers), len(fields)) and
\* has no other key.
C2_ZipUpToMin_EveryColumn ==
    (pc = "done" /\ has_header) =>
        /\ Len(result) = Len(DataRows)
        /\ \A n \in 1..Len(DataRows) :
              ZipsEveryColumn(headers,
                              _parse_csv_line_fast(DataRows[n], delimiter, quotechar),
                              result[n])

\* C2 amended: the same, where headers[j] maps to fields[j] for every j below the
\* minimum whose header name does not occur again at a later position below the
\* minimum (a repeated header name keeps the value of its last occurrence).
C2_ZipUpToMin ==
    (pc = "done" /\ has_header) =>
        /\ Len(result) = Len(DataRows)
        /\ \A n \in 1..Len(DataRows) :
              ZipsLastOccurrence(headers,
                                 _parse_csv_line_fast(DataRows[n], delimiter, quotechar),
                                 result[n])

\* C2 witness: a finished call whose two distinct header names met a row of three
\* fields: the record has the two header keys and the third field is dropped.
C2_Witness ==
    /\ pc = "done"
    /\ has_header
    /\ Len(headers) = 2
    /\ headers[1] # headers[2]
    /\ Len(result) = 1
    /\ Len(fields) = 3
    /\ Len(result[1]) = 2

\* C3: normalize(normalize(x)) = normalize(x) for every string x.
C3_NormalizeIdempotent ==
    sap_pc = "twice" => sap_twice = sap_once

\* C3 witness: a value that the first pass changed into a date has been
\* normalized twice.
C3_Witness ==
    /\ sap_pc = "twice"
    /\ sap_once # sap_value
    /\ Len(sap_once.s) = 10
    /\ sap_once.s[5] = "-"
    /\ sap_twice = sap_once

\* C4 as stated: normalize of an all-digit string of length >= 8 returns the
\* string with its leading zeros stripped, at least one digit kept; in
\* particular normalize("00012345") = "12345".
C4_MaterialNumberPath ==
    (sap_pc = "once" /\ sap_value.kind = "str" /\ IsDigit(sap_value.s)
        /\ Len(sap_value.s) >= 8)
        => sap_once = Str(StripLeadingZeros(sap_value.s))

\* The key field of each entity record type.
KeyFieldOf(rtype) ==
    IF rtype = "material_master" THEN MATNR
    ELSE IF rtype = "vendor_master" THEN LIFNR
    ELSE IF rtype = "customer_master" THEN KUNNR
    ELSE BELNR

\* C5 as stated: in the entity dispatch the key field (MATNR, LIFNR, KUNNR,
\* BELNR) with an all-digit value of any length comes back as the trimmed value
\* with its leading zeros stripped, at least one digit kept.
C5_KeyFieldStripsZeros ==
    (/\ sap_pc = "batch"
     /\ record_type # "generic"
     /\ records[1][1][1] = KeyFieldOf(record_type)
     /\ sap_value.kind = "str"
     /\ IsDigit(Strip(sap_value.s)))
        => DictGet(transformed[1], KeyFieldOf(record_type))
              = Str(StripLeadingZeros(Strip(sap_value.s)))

\* The severity of every message of a result, derived from its type by the
\* fixed table.
HasErrorOrAbort(messages) ==
    \E k \in 1..Len(messages) :
        _get_message_severity(messages[k].type) \in {"error", "abort"}

\* C6 as stated: in the result of either BAPI parser, success is false if and
\* only if at least one RETURN message has severity error or abort.
C6_SuccessIffNoErrorOrAbort ==
    /\ bapi_pc = "done" =>
          /\ bapi_result.success = ~HasErrorOrAbort(bapi_result.messages)
          /\ \A k \in 1..Len(bapi_result.messages) :
                bapi_result.messages[k].severity
                   = _get_message_severity(bapi_result.messages[k].type)
    /\ parser_pc = "done" =>
          parser_result.success = ~HasErrorOrAbort(parser_result.messages)

\* The top-level keys of the response other than RETURN.
ParamKeys(response) == DictKeys(response) \ {RETURN}

\* C7: every top-level key other than RETURN is in exactly one of data and
\* tables: a non-empty list in tables, every other value in data after the field
\* normalizer; RETURN is in neither; a RETURN that is a single object gives one
\* message; the example response gives success false, one message of severity
\* error and data = {RESULT: "42"}.
C7_DataTablesPartition ==
    bapi_pc = "done" =>
        /\ DictKeys(bapi_result.data) \cup DictKeys(bapi_result.tables)
              = ParamKeys(bapi_response)
        /\ DictKeys(bapi_result.data) \cap DictKeys(bapi_result.tables) = {}
        /\ \A key \in ParamKeys(bapi_response) :
              LET value == DictGet(bapi_response, key)
              IN IF value.kind = "list" /\ value.items # <<>>
                 THEN key \in DictKeys(bapi_result.tables)
                 ELSE /\ key \in DictKeys(bapi_result.data)
                      /\ DictGet(bapi_result.data, key) = _transform_sap_field(value)
        /\ (RETURN \in DictKeys(bapi_response)
               /\ DictGet(bapi_response, RETURN).kind = "dict")
              => /\ Len(bapi_result.messages) = 1
                 /\ bapi_result.messages[1].type
                       = MsgType(DictGet(bapi_response, RETURN))
        /\ bapi_response = ExampleBapi =>
              /\ bapi_result.success = FALSE
              /\ Len(bapi_result.messages) = 1
              /\ bapi_result.messages[1].severity = "error"
              /\ bapi_result.data = << <<RESULT, Str(<<"4", "2">>)>> >>

\* C7 witness: a parsed response with a single-object RETURN, an empty list
\* that went to data and a table that went to tables.
C7_Witness ==
    /\ bapi_pc = "done"
    /\ RETURN \in DictKeys(bapi_response)
    /\ DictGet(bapi_response, RETURN).kind = "dict"
    /\ RESULT \in DictKeys(bapi_result.data)
    /\ DictGet(bapi_result.data, RESULT) = List(<<>>)
    /\ ITEMS \in DictKeys(bapi_result.tables)
    /\ Len(DictGet(bapi_result.tables, ITEMS).rows) = 2

\* The records of a sequence of chunks, in delivery order.
RECURSIVE Flatten(_)
Flatten(chunks) == IF chunks = <<>> THEN <<>> ELSE Head(chunks) \o Flatten(Tail(chunks))

\* The non-blank lines of the file after its first line, stripped, in file order.
FileDataLines ==
    LET ls == FileLines(file_content)
        stripped == [k \in 1..Len(ls) |-> Strip(ls[k])]
    IN IF ls = <<>> THEN <<>> ELSE SelectSeq(Tail(stripped), NotBlank)

\* C8 as stated: with chunk size k the caller-supplied chunk handler receives
\* the data records of the file in file order: one record for every non-blank
\* data line, every chunk but the last of exactly k records, the last of 1..k,
\* never more than k records buffered, and the returned line count is the number
\* of records delivered.
C8_ChunkedDelivery ==
    /\ lf_pc \in {"lines", "returned"} => Len(chunk) <= chunk_size
    /\ lf_pc = "returned" =>
          /\ Len(Flatten(callback_calls)) = Len(FileDataLines)
          /\ \A n \in 1..Len(callback_calls) :
                IF n < Len(callback_calls)
                THEN Len(callback_calls[n]) = chunk_size
                ELSE Len(callback_calls[n]) \in 1..chunk_size
          /\ line_count = Len(Flatten(callback_calls))

\* C9 as stated: when the caller's chunk handler raises on chunk number n, the
\* call ends in an error and no chunk after n is formed or delivered.
C9_HandlerErrorAborts ==
    (callback_raises_at > 0 /\ Len(chunk_calls) >= callback_raises_at)
        => (lf_pc = "error" /\ Len(chunk_calls) = callback_raises_at)

\* A value the round trip is claimed for: not empty, no line break, no
\* surrounding whitespace, no quote character.
SimpleValue(v) ==
    /\ v # <<>>
    /\ Strip(v) = v
    /\ ~Contains(v, "\n")
    /\ ~Contains(v, "\"")
    /\ ~Contains(v, quotechar)

SimpleData ==
    /\ data # <<>>
    /\ \A n \in 1..Len(data) : \A k \in 1..Len(data[n]) : SimpleValue(data[n][k][2])

\* list == list for lists of dicts
RecordsEq(a, b) ==
    /\ Len(a) = Len(b)
    /\ \A n \in 1..Len(a) : DictEq(a[n], b[n])

\* C10 as stated: a non-empty list of records with shared keys and simple
\* values (values holding the delimiter included), written by write_fast and
\* read back by process_fast(has_header=true) on a processor with the same
\* delimiter and quote character, comes back equal.
C10_WriteReadRoundTrip ==
    (pc = "done" /\ has_header /\ SimpleData) => RecordsEq(result, data)

\* The quote stripping the documentation describes: one leading and one trailing
\* occurrence of the configured quote character.
UnquoteWith(field, quote) ==
    IF field # <<>> /\ Head(field) = quote /\ field[Len(field)] = quote
    THEN SubSeq(field, 2, Len(field) - 1)
    ELSE field

\* The n-th raw segment of ln: the text between two successive split points.
RawSegment(ln, delim, quote, n) ==
    SubSeq(ln, SplitPoint(ln, delim, quote, n - 1) + 1, SplitPoint(ln, delim, quote, n) - 1)

\* C11 as stated: each field returned by the tokenizer is its raw segment,
\* trimmed, with one leading and one trailing quote character removed when the
\* trimmed text begins and ends with the quote character configured on the
\* processor, and nothing else changed.
C11_FieldTrimmedAndUnquoted ==
    (fields # <<>> /\ delimiter # quotechar) =>
        \A n \in 1..Len(fields) :
            fields[n] = UnquoteWith(Strip(RawSegment(line, delimiter, quotechar, n)),
                                    quotechar)

\* digits "," digits "." digits: a thousands separator and a decimal point.
RECURSIVE JoinWith(_, _)
JoinWith(parts, sep) ==
    IF parts = <<>> THEN <<>>
    ELSE IF Len(parts) = 1 THEN parts[1]
    ELSE parts[1] \o sep \o JoinWith(Tail(parts), sep)

ThousandsAndDecimal(s, thousands, decimal) ==
    LET d == Split(s, decimal)
    IN /\ Len(d) = 2
       /\ IsDigit(d[2])
       /\ Len(Split(d[1], thousands)) >= 2
       /\ \A k \in 1..Len(Split(d[1], thousands)) : IsDigit(Split(d[1], thousands)[k])

\* The plain decimal number of a value written with a thousands separator.
PlainDecimal(s, thousands, decimal) ==
    Replace(Remove(s, thousands), decimal, ".")

\* The numeric fields of each entity record type.
NumericFieldsOf(rtype) ==
    IF rtype = "material_master" THEN {BRGEW, NTGEW}
    ELSE IF rtype = "financial_document" THEN {DMBTR, WRBTR}
    ELSE {}

\* C12 as stated: for DMBTR, WRBTR, BRGEW and NTGEW the numeric normalizer
\* returns the plain decimal number of a value written with a thousands and a
\* decimal separator, turns a trailing minus into a leading minus, and returns
\* "0" for empty or unparsable input.
C12_NumericNormalizer ==
    (/\ sap_pc = "batch"
     /\ records[1][1][1] \in NumericFieldsOf(record_type)
     /\ sap_value.kind = "str") =>
        LET s == Strip(sap_value.s)
            out == DictGet(transformed[1], records[1][1][1])
        IN /\ ThousandsAndDecimal(s, ",", ".") => out = Str(PlainDecimal(s, ",", "."))
           /\ ThousandsAndDecimal(s, ".", ",") => out = Str(PlainDecimal(s, ".", ","))
           /\ (Len(s) >= 2 /\ IsDigit(SubSeq(s, 1, Len(s) - 1)) /\ s[Len(s)] = "-")
                 => out = Str(<<"-">> \o SubSeq(s, 1, Len(s) - 1))
           /\ s = <<>> => out = Str(<<"0">>)
           /\ (\A k \in 1..Len(s) : s[k] \notin Digits) => out = Str(<<"0">>)

\* C13: normalize of a value that after trimming is 8 digits and not "00000000"
\* returns characters 0-3, "-", 4-5, "-", 6-7; normalize("00000000") and
\* normalize of an empty or whitespace-only string return "".
C13_DateRule ==
    (sap_pc = "once" /\ sap_value.kind = "str") =>
        LET s == Strip(sap_value.s)
        IN /\ (Len(s) = 8 /\ IsDigit(s) /\ s # Zeros(8)) =>
                 sap_once = Str(<<s[1], s[2], s[3], s[4], "-", s[5], s[6], "-", s[7], s[8]>>)
           /\ s = Zeros(8) => sap_once = Str(<<>>)
           /\ s = <<>> => sap_once = Str(<<>>)
           /\ sap_value.s = <<"2", "0", "2", "3", "0", "6", "1", "5">>
                 => sap_once = Str(<<"2", "0", "2", "3", "-", "0", "6", "-", "1", "5">>)

\* C13 witness: the documented date "20230615" has been normalized.
C13_Witness ==
    /\ sap_pc = "once"
    /\ sap_value = Str(<<"2", "0", "2", "3", "0", "6", "1", "5">>)
    /\ sap_once = Str(<<"2", "0", "2", "3", "-", "0", "6", "-", "1", "5">>)

\* C16 as stated: batch_transform_records raises no error, whatever the record
\* type and the field values (str, number, None), and returns one record per
\* input record, in order, with the key set of its input record.
C16_BatchNeverRaises ==
    /\ sap_pc # "raised"
    /\ sap_pc = "batch" =>
          /\ Len(transformed) = Len(records)
          /\ \A n \in 1..Len(records) : DictKeys(transformed[n]) = DictKeys(records[n])

\* out has the shape of value with every dict key renamed by the mapping, the
\* number of entries of every dict, the order and length of every list and
\* every scalar leaf kept.
RECURSIVE RenamedEveryEntry(_, _, _)
RenamedEveryEntry(value, out, mapping) ==
    IF value.kind = "dict"
    THEN /\ out.kind = "dict"
         /\ Len(out.d) = Len(value.d)
         /\ \A j \in 1..Len(value.d) :
               /\ NewKey(mapping, value.d[j][1]) \in DictKeys(out.d)
               /\ RenamedEveryEntry(value.d[j][2],
                                    DictGet(out.d, NewKey(mapping, value.d[j][1])), mapping)
    ELSE IF value.kind = "list"
    THEN /\ out.kind = "list"
         /\ Len(out.items) = Len(value.items)
         /\ \A j \in 1..Len(value.items) :
               RenamedEveryEntry(value.items[j], out.items[j], mapping)
    ELSE out = value

\* The same, where of the entries of a dict that get the same new key the last
\* one (in the order of the dict) gives the value, and a dict keeps its number of
\* entries when its new keys are pairwise distinct.
RECURSIVE RenamedLastWins(_, _, _)
RenamedLastWins(value, out, mapping) ==
    IF value.kind = "dict"
    THEN /\ out.kind = "dict"
         /\ DictKeys(out.d) = {NewKey(mapping, value.d[j][1]) : j \in 1..Len(value.d)}
         /\ \A j \in 1..Len(out.d) : \A q \in 1..Len(out.d) :
               out.d[j][1] = out.d[q][1] => j = q
         /\ \A j \in 1..Len(value.d) :
               (\A q \in (j + 1)..Len(value.d) :
                   NewKey(mapping, value.d[q][1]) # NewKey(mapping, value.d[j][1]))
               => RenamedLastWins(value.d[j][2],
                                  DictGet(out.d, NewKey(mapping, value.d[j][1])), mapping)
         /\ (\A j \in 1..Len(value.d) : \A q \in 1..Len(value.d) :
                NewKey(mapping, value.d[j][1]) = NewKey(mapping, value.d[q][1]) => j = q)
               => Len(out.d) = Len(value.d)
    ELSE IF value.kind = "list"
    THEN /\ out.kind = "list"
         /\ Len(out.items) = Len(value.items)
         /\ \A j \in 1..Len(value.items) :
               RenamedLastWins(value.items[j], out.items[j], mapping)
    ELSE out = value

\* C14 as stated: transform returns a structure of the shape of its input in
\* which every dict key k is mapping[k] when k is in the mapping and k otherwise,
\* every dict keeps its number of entries, lists keep order and length, scalar
\* leaves are unchanged; with an empty mapping the result equals the input.
C14_TransformKeepsShape_EveryEntry ==
    json_pc = "transformed" =>
        /\ RenamedEveryEntry(json_data, json_out, json_mapping)
        /\ json_mapping = <<>> => json_out = json_data

\* C14 amended: the same, where a dict keeps its number of entries when the
\* renamed keys of its entries are pairwise distinct; when two entries of a dict
\* get the same new key the dict holds one entry for them, with the value of the
\* later entry.
C14_TransformKeepsShape ==
    json_pc = "transformed" =>
        /\ RenamedLastWins(json_data, json_out, json_mapping)
        /\ json_mapping = <<>> => json_out = json_data

\* C14 witness: a dict holding a dict and a list has been transformed with a
\* mapping that renames "a": the key is renamed at both levels, the list is kept.
C14_Witness ==
    /\ json_pc = "transformed"
    /\ json_mapping = << <<KEY_A, KEY_C>> >>
    /\ json_data = Dict(<< <<KEY_A, Dict(<< <<KEY_A, Num(1)>> >>)>>,
                           <<KEY_B, List(<<Num(1), Str(<<"x">>)>>)>> >>)
    /\ json_out = Dict(<< <<KEY_C, Dict(<< <<KEY_C, Num(1)>> >>)>>,
                          <<KEY_B, List(<<Num(1), Str(<<"x">>)>>)>> >>)

\* The scalar leaves of a value, each with its path: the dict keys and the
\* 0-based list indexes from the top down to the leaf.
RECURSIVE ScalarLeaves(_, _)
ScalarLeaves(value, path) ==
    IF value.kind = "dict"
    THEN UNION {ScalarLeaves(value.d[j][2], Append(path, value.d[j][1]))
                   : j \in 1..Len(value.d)}
    ELSE IF value.kind = "list"
    THEN UNION {ScalarLeaves(value.items[j], Append(path, IntToStr(j - 1)))
                   : j \in 1..Len(value.items)}
    ELSE {<<path, value>>}

\* C15 as stated: flatten returns a flat mapping with exactly one entry for
\* every scalar leaf of the input, stored under the leaf's path joined with sep
\* (dict keys and 0-based list indexes, no leading separator).
C15_FlattenOneEntryPerLeaf ==
    json_pc = "flattened" =>
        /\ Len(json_flat) = Cardinality(ScalarLeaves(json_data, <<>>))
        /\ \A leaf \in ScalarLeaves(json_data, <<>>) :
              /\ JoinWith(leaf[1], json_sep) \in DictKeys(json_flat)
              /\ DictGet(json_flat, JoinWith(leaf[1], json_sep)) = leaf[2]

\* The errors erp_data_validator returned for one record and one field, in order.
ErrorsOf(record_idx, field_name) ==
    SelectSeq(val_errors,
              LAMBDA err : err.record = record_idx /\ err.field = field_name)

\* C17: for every record and every schema field absent from the record,
\* erp_data_validator reports exactly one error, with the record's index, the
\* field name and the message "Required field missing", when the rule is
\* required, and no error for that field otherwise (no other rule of an absent
\* field is evaluated).
C17_MissingRequiredField ==
    val_pc = "done" =>
        \A n \in 1..Len(val_data) : \A k \in 1..Len(val_schema) :
            val_schema[k][1] \notin DictKeys(val_data[n]) =>
                ErrorsOf(n - 1, val_schema[k][1])
                   = IF "required" \in DOMAIN val_schema[k][2]
                        /\ val_schema[k][2].required
                     THEN << [record |-> n - 1, field |-> val_schema[k][1],
                              error |-> <<"Required field missing">>] >>
                     ELSE <<>>

\* C17 witness: the schema {qty: {type: integer, required: true}} and one record
\* without qty have been validated: exactly one error came back.
C17_Witness ==
    /\ val_pc = "done"
    /\ val_schema = << <<FIELD_QTY, [type |-> "integer", required |-> TRUE]>> >>
    /\ Len(val_data) = 1
    /\ FIELD_QTY \notin DictKeys(val_data[1])
    /\ val_errors = << [record |-> 0, field |-> FIELD_QTY,
                        error |-> <<"Required field missing">>] >>

\* The value does not have the type the rule names.
TypeMismatch(value, field_rules) ==
    /\ "type" \in DOMAIN field_rules
    /\ \/ field_rules.type = "integer" /\ ~IntParses(StrOf(value))
       \/ field_rules.type \in {"float", "number"} /\ ~FloatParses(StrOf(value))
       \/ field_rules.type = "string" /\ value.kind # "str"

\* The constraints of the rule the value violates.
ViolatedConstraints(value, field_rules) ==
    {c \in DOMAIN field_rules :
        \/ c = "min_length" /\ Len(StrOf(value)) < field_rules.min_length
        \/ c = "max_length" /\ Len(StrOf(value)) > field_rules.max_length
        \/ c = "pattern" /\ ~IsDigit(StrOf(value))}

\* C18 as stated: for a field present in the record, erp_data_validator returns
\* an error when the value does not match the rule's type (integer, float,
\* string, number) and one error for each violated min_length, max_length and
\* pattern constraint, no error for a value that satisfies every rule, and the
\* errors of all records in record order.
C18_PresentFieldErrors ==
    val_pc = "done" =>
        /\ \A n \in 1..Len(val_data) : \A k \in 1..Len(val_schema) :
              val_schema[k][1] \in DictKeys(val_data[n]) =>
                 LET value == DictGet(val_data[n], val_schema[k][1])
                     mismatch == IF TypeMismatch(value, val_schema[k][2]) THEN 1 ELSE 0
                 IN Len(ErrorsOf(n - 1, val_schema[k][1]))
                       = mismatch + Cardinality(ViolatedConstraints(value, val_schema[k][2]))
        /\ \A a \in 1..Len(val_errors) : \A b \in a..Len(val_errors) :
              val_errors[a].record <= val_errors[b].record

DimensionMismatch ==
    \/ /\ math_op \in {"erp_group_aggregation", "vector_operations"}
       /\ Len(math_a) # Len(math_b)
    \/ /\ math_op = "matrix_operations"
       /\ math_func = "multiply"
       /\ Len(math_a[1]) # Len(math_b)
    \/ /\ math_op = "matrix_operations"
       /\ math_func = "add"
       /\ (Len(math_a) # Len(math_b) \/ Len(math_a[1]) # Len(math_b[1]))

\* C21: a call of erp_group_aggregation, vector_operations or
\* matrix_operations (multiply, add) whose arguments have mismatching
\* dimensions ends raised and returns no result.
C21_DimensionMismatchRaises ==
    (math_pc # "idle" /\ DimensionMismatch) =>
        (math_pc = "raised" /\ math_out \in {<<>>, Raised})

\* Equality of two entries: fractions, or roots of fractions.
FracEq(p, q) == p[1] * q[2] = q[1] * p[2]

EntryEq(x, y) ==
    IF DOMAIN x = {"sqrt"} THEN DOMAIN y = {"sqrt"} /\ FracEq(x.sqrt, y.sqrt)
    ELSE DOMAIN y # {"sqrt"} /\ FracEq(x, y)

\* The positions of ids that carry the id g, and the values at them.
PositionsOf(ids, g) == {k \in 1..Len(ids) : ids[k] = g}

RECURSIVE ValuesAtFrom(_, _, _, _)
ValuesAtFrom(ids, vals, g, k) ==
    IF k > Len(ids) THEN <<>>
    ELSE IF ids[k] = g THEN <<vals[k]>> \o ValuesAtFrom(ids, vals, g, k + 1)
    ELSE ValuesAtFrom(ids, vals, g, k + 1)

ValuesAt(ids, vals, g) == ValuesAtFrom(ids, vals, g, 1)

\* The sum of the values accumulated from the left, in doubles.
RECURSIVE LinearSum(_)
LinearSum(vals) ==
    IF vals = <<>> THEN 0
    ELSE FAdd(LinearSum(SubSeq(vals, 1, Len(vals) - 1)), vals[Len(vals)])

\* The sum of the magnitudes of the values: below 2^MantissaBits no partial
\* sum of the values, in any order, is rounded.
RECURSIVE SumAbs(_)
SumAbs(vals) == IF vals = <<>> THEN 0 ELSE Abs(Head(vals)) + SumAbs(Tail(vals))

NoRounding(vals) == SumAbs(vals) < Pow2(MantissaBits)

\* The entry of the dict d under key g.
EntryOf(d, g) == d[CHOOSE k \in 1..Len(d) : d[k][1] = g][2]

\* The sequence s with its positions permuted by f.
Permuted(s, f) == [k \in 1..Len(s) |-> s[f[k]]]

PermutationsOf(n) == {f \in [1..n -> 1..n] : \A x, y \in 1..n : f[x] = f[y] => x = y}

\* A finished group aggregation on arrays of equal length with one of the
\* seven aggregations.
GroupCallDone ==
    /\ math_op = "erp_group_aggregation"
    /\ math_pc = "done"
    /\ Len(math_a) = Len(math_b)
    /\ math_func \in BranchAggFuncs

\* The result has one entry per distinct group id, the counts of the groups
\* sum to len(values), the mean of a group is the sum of its values (added
\* in position order) over its count, and the median of a group of even
\* count is the average of the two middle elements of the sorted group.
GroupPartition ==
    LET ids == {math_a[k] : k \in 1..Len(math_a)}
    IN /\ Len(math_out) = Cardinality(ids)
       /\ {math_out[k][1] : k \in 1..Len(math_out)} = ids
       /\ \A g \in ids :
             LET vs == ValuesAt(math_a, math_b, g)
                 sorted == SortSeq(vs, LAMBDA a, b : a < b)
             IN /\ Len(vs) = Cardinality(PositionsOf(math_a, g))
                /\ math_func = "sum" => EntryEq(EntryOf(math_out, g), <<LinearSum(vs), 1>>)
                /\ math_func = "mean" => EntryEq(EntryOf(math_out, g), <<LinearSum(vs), Len(vs)>>)
                /\ math_func = "count" => EntryEq(EntryOf(math_out, g), <<Len(vs), 1>>)
                /\ math_func = "min" =>
                      /\ \E k \in 1..Len(vs) : EntryEq(EntryOf(math_out, g), <<vs[k], 1>>)
                      /\ \A k \in 1..Len(vs) : EntryOf(math_out, g)[1] <= vs[k]
                /\ math_func = "max" =>
                      /\ \E k \in 1..Len(vs) : EntryEq(EntryOf(math_out, g), <<vs[k], 1>>)
                      /\ \A k \in 1..Len(vs) : EntryOf(math_out, g)[1] >= vs[k]
                /\ (math_func = "median" /\ Len(vs) % 2 = 0) =>
                      EntryEq(EntryOf(math_out, g),
                              <<FAdd(sorted[Len(vs) \div 2], sorted[(Len(vs) \div 2) + 1]), 2>>)
                /\ (math_func = "median" /\ Len(vs) % 2 = 1) =>
                      EntryEq(EntryOf(math_out, g), <<sorted[(Len(vs) \div 2) + 1], 1>>)
       /\ Cardinality(UNION {PositionsOf(math_a, g) : g \in ids}) = Len(math_b)
       /\ (math_a = <<1, 1, 2>> /\ math_b = <<10, 20, 5>> /\ math_func = "mean") =>
             /\ EntryEq(EntryOf(math_out, 1), <<15, 1>>)
             /\ EntryEq(EntryOf(math_out, 2), <<5, 1>>)

\* The result for the positions permuted by f has, under the group id g, the
\* entry the result has.
SameEntryPermuted(f, g) ==
    EntryEq(EntryOf(math_out, g),
            EntryOf(erp_group_aggregation(Permuted(math_a, f), Permuted(math_b, f), math_func), g))

InWindow(idx, window_size) ==
    Cardinality({j \in 0..idx : j >= idx - window_size + 1})

\* C23: a moving_average call that returned gives an array of the length of
\* values whose entry i is the sum of values[max(0, i - window + 1) .. i]
\* over the number of elements in that range, which is not zero.
C23_MovingAverage ==
    (math_op = "moving_average" /\ math_pc = "done") =>
        /\ Len(math_out) = Len(math_a)
        /\ \A k \in 1..Len(math_a) :
              /\ InWindow(k - 1, math_window) > 0
              /\ math_out[k][2] # 0
              /\ FracEq(math_out[k],
                        <<LinearSum(SubSeq(math_a, k - InWindow(k - 1, math_window) + 1, k)),
                          InWindow(k - 1, math_window)>>)

\* A line without a character that is not whitespace.
BlankLine(ln) == \A k \in 1..Len(ln) : ln[k] \in Whitespace

NonBlankLine(ln) == ~BlankLine(ln)

\* The non-blank lines of the input of the call, in order.
NonBlankInput == SelectSeq(Split(file_content, "\n"), NonBlankLine)

\* The non-blank data lines of the input: with has_header the non-blank lines
\* after the header line (the first non-blank line), all of them otherwise.
NonBlankData ==
    IF has_header /\ NonBlankInput # <<>> THEN Tail(NonBlankInput) ELSE NonBlankInput

\* C24: process_fast returns one record per non-blank data line of the input
\* (the lines after the header line when has_header, all lines otherwise), the
\* n-th record being the record of the n-th such line, and returns the empty
\* list for an empty or whitespace-only input.
C24_BlankLinesSkipped ==
    pc = "done" =>
        /\ Len(result) = Len(NonBlankData)
        /\ \A n \in 1..Len(NonBlankData) :
              result[n] =
                 RowRecord(has_header,
                           IF has_header
                           THEN _parse_csv_line_fast(NonBlankInput[1], delimiter, quotechar)
                           ELSE <<>>,
                           _parse_csv_line_fast(NonBlankData[n], delimiter, quotechar))
        /\ BlankLine(file_content) => result = <<>>

\* C24 witness: a finished call with a header line, a blank line and a data
\* line returned the one record of the data line.
C24_Witness ==
    /\ pc = "done"
    /\ has_header
    /\ Len(lines) = 2
    /\ BlankLine(lines[1])
    /\ Len(result) = 1
    /\ Len(NonBlankInput) = 2

\* C25: the tokenizer raises no error on any line, returns at least one field,
\* and the raw segments it cut, joined with the delimiter, are the line.
C25_TokenizerTotal ==
    pc # "idle" =>
        /\ pc = "done"
        /\ Len(fields) >= 1
        /\ Len(fields) = Len(LineSlices(line, delimiter, quotechar))
        /\ JoinWith(LineSlices(line, delimiter, quotechar), <<delimiter>>) = EncodeUtf8(line)

\* The keys of the dict d in their order.
KeysInOrder(d) == [k \in 1..Len(d) |-> d[k][1]]

\* The table parameters of the response: the keys other than RETURN whose
\* value is a non-empty list.
TableParams(response) ==
    {key \in ParamKeys(response) :
        DictGet(response, key).kind = "list" /\ DictGet(response, key).items # <<>>}

\* The ParsedTable table is the conversion of the list table_data of rows.
IsParsedTableOf(table, table_data) ==
    /\ table.headers = KeysInOrder(table_data[1].d)
    /\ Len(table.rows) = Len(table_data)
    /\ table.row_count = Len(table_data)
    /\ \A n \in 1..Len(table_data) :
          /\ Len(table.rows[n]) = Len(table.headers)
          /\ \A k \in 1..Len(table.headers) :
                table.rows[n][k] =
                   IF table.headers[k] \in DictKeys(table_data[n].d)
                   THEN _transform_sap_field(DictGet(table_data[n].d, table.headers[k]))
                   ELSE Str(<<>>)

\* C26: every table parameter of a parsed response is the ParsedTable whose
\* headers are the keys of the first row in their order and whose n-th row is
\* the n-th input row projected on the headers, each value normalized, the
\* empty string for a key the row lacks; keys of later rows only are dropped.
C26_ParsedTable ==
    bapi_pc = "done" =>
        \A key \in TableParams(bapi_response) :
            /\ key \in DictKeys(bapi_result.tables)
            /\ IsParsedTableOf(DictGet(bapi_result.tables, key),
                               DictGet(bapi_response, key).items)

\* C26 witness: a table of two rows was converted whose second row lacks the
\* first header and has a key the first row lacks.
C26_Witness ==
    /\ bapi_pc = "done"
    /\ ITEMS \in DictKeys(bapi_result.tables)
    /\ DictGet(bapi_result.tables, ITEMS).headers = <<COL_A, COL_B>>
    /\ DictGet(bapi_result.tables, ITEMS).rows
          = << <<Str(<<"1", ".", "5">>), Str(<<"x">>)>>, <<Str(<<>>), Str(<<"y">>)>> >>
    /\ COL_C \in DictKeys(DictGet(bapi_response, ITEMS).items[2].d)

\* The sum of the row counts of the tables of the dict tables.
RECURSIVE RowCountSum(_)
RowCountSum(tables) ==
    IF tables = <<>> THEN 0 ELSE Len(Head(tables)[2].rows) + RowCountSum(Tail(tables))

\* C27: in every result of _transform_bapi_result, record_count is the sum of
\* the row counts of the tables, table_count the number of tables,
\* message_count the number of messages and has_errors is not success.
C27_Metadata ==
    bapi_pc = "done" =>
        /\ bapi_result.metadata.record_count = RowCountSum(bapi_result.tables)
        /\ bapi_result.metadata.table_count = Len(bapi_result.tables)
        /\ bapi_result.metadata.table_count = Cardinality(DictKeys(bapi_result.tables))
        /\ bapi_result.metadata.message_count = Len(bapi_result.messages)
        /\ bapi_result.metadata.has_errors = ~bapi_result.success

\* C27 witness: a result with two tables of one and two rows, two messages and
\* an error.
C27_Witness ==
    /\ bapi_pc = "done"
    /\ Len(bapi_result.tables) = 2
    /\ bapi_result.metadata.record_count = 3
    /\ bapi_result.metadata.message_count = 2
    /\ bapi_result.metadata.has_errors

\* The finished RFC table decode: its response, field names, DATA rows and the
\* records it returned.
RfcDone == frame_op = "_transform_rfc_table_data" /\ frame_pc = "done"

RfcResponse == heap[heap[frame_args[1]].items[1].addr].d

RfcFieldNames ==
    LET fs == DictGet(RfcResponse, FIELDS).items
    IN [k \in 1..Len(fs) |-> DictGet(fs[k].d, FIELDNAME).s]

RfcDataRows == DictGet(RfcResponse, DATA).items

RfcOut == heap[CHOOSE a \in frame_out : TRUE].items

\* The parts of the WA string of the n-th DATA row.
RfcParts(n) == Split(DictGet(RfcDataRows[n].d, WA).s, "|")

\* The record maps the i-th field name to the normalized i-th part for every
\* i below the minimum picked by Covered, and has no other key.
RfcRecordOf(record, n, Covered(_, _)) ==
    LET m == Min(Len(RfcFieldNames), Len(RfcParts(n)))
    IN /\ DictKeys(record) = {RfcFieldNames[k] : k \in 1..m}
       /\ \A k \in 1..m :
             Covered(k, m) =>
                DictGet(record, RfcFieldNames[k]) = _transform_sap_field(Str(RfcParts(n)[k]))

EveryPosition(k, m) == TRUE

LastOccurrence(k, m) == \A q \in (k + 1)..m : RfcFieldNames[q] # RfcFieldNames[k]

\* C28 as stated: the decoder returns one record per DATA row in row order,
\* the record of a row maps the i-th field name to the normalized i-th part
\* for every i below min(number of FIELDS, number of parts), and has no other
\* key; an empty DATA list gives an empty result.
C28_RfcDecode_EveryPosition ==
    RfcDone =>
        /\ Len(RfcOut) = Len(RfcDataRows)
        /\ \A n \in 1..Len(RfcDataRows) : RfcRecordOf(RfcOut[n].d, n, EveryPosition)

\* C28 amended: the same, where the i-th field name maps to the i-th part for
\* every i below the minimum whose field name does not occur again at a later
\* position below the minimum (a repeated field name keeps the part of its
\* last occurrence).
C28_RfcDecode ==
    RfcDone =>
        /\ Len(RfcOut) = Len(RfcDataRows)
        /\ \A n \in 1..Len(RfcDataRows) : RfcRecordOf(RfcOut[n].d, n, LastOccurrence)

\* C28 witness: two field names met a row of two parts and a row of one part:
\* the first record has both keys, the second the first key only.
C28_Witness ==
    /\ RfcDone
    /\ Len(RfcFieldNames) = 2
    /\ RfcFieldNames[1] # RfcFieldNames[2]
    /\ Len(RfcOut) = 2
    /\ Len(RfcOut[1].d) = 2
    /\ Len(RfcOut[2].d) = 1
    /\ Len(RfcParts(1)) = 2

\* A decimal number with at most one leading minus sign: digits with at most
\* one decimal point.
DecimalString(s) ==
    LET u == IF s # <<>> /\ Head(s) = "-" THEN Tail(s) ELSE s
    IN /\ \E k \in 1..Len(u) : u[k] \in Digits
       /\ \A k \in 1..Len(u) : u[k] \in Digits \cup {"."}
       /\ Cardinality({k \in 1..Len(u) : u[k] = "."}) <= 1

\* C29 as stated: the value the numeric normalizer returns for a string is "0"
\* or a decimal number with at most one leading minus sign, and is never a
\* string that the normalizer itself turns into "0" as unparsable.
C29_NumericOutputParses ==
    (/\ sap_pc = "batch"
     /\ records[1][1][1] \in NumericFieldsOf(record_type)
     /\ sap_value.kind = "str") =>
        LET out == DictGet(transformed[1], records[1][1][1])
        IN \/ out = Str(<<"0">>)
           \/ /\ DecimalString(out.s)
              /\ _normalize_numeric_field(out) # Str(<<"0">>)

\* C30 as stated: for every file content and chunk size, the chunks formed by
\* process_large_file_fast, concatenated, are the record list
\* process_fast(content, has_header=true) returns, and the returned line count
\* is the length of that list.
C30_ReadersAgree ==
    lf_pc = "returned" =>
        /\ RecordsEq(Flatten(chunk_calls),
                     process_fast(file_content, TRUE, delimiter, quotechar))
        /\ line_count = Len(process_fast(file_content, TRUE, delimiter, quotechar))

====
